---- MODULE Spec2Model ----
(***************************************************************************)
(* A model of the blog application of src/script.js (class                 *)
(* BlogAppOptimized): the browser storage shared by the tabs of one        *)
(* origin, each tab's in-memory mirrors, and the handlers that move data   *)
(* between them.                                                           *)
(*                                                                         *)
(* Conventions.                                                            *)
(*  - A JavaScript string is the sequence of its character codes, so that  *)
(*    length, trim() and hashPassword are computed as the code computes    *)
(*    them.                                                                *)
(*  - Where the code inspects the type of a value (typeof, truthiness,     *)
(*    the in operator) the value carries its type: Null, Undef, Num(n),    *)
(*    Bool(b), Str(s), Iso(ms) (the string toISOString() makes of the      *)
(*    instant ms) and Obj(fields).  A field that is absent from an object  *)
(*    is absent from the DOMAIN of its record.                             *)
(*  - Time is counted in seconds; the code's millisecond constants are     *)
(*    divided by 1000.  Date.now() is the variable now.                    *)
(*  - The key blogDataBackup is written by createDataBackup and read by    *)
(*    nothing; it is not part of the state.  The reads createDataBackup    *)
(*    makes are modelled, because a read of blogUsers can repair storage.  *)
(***************************************************************************)
EXTENDS Integers, Sequences, FiniteSets, TLC

(***************************************************************************)
(* Program constants (seconds where they are durations).                   *)
(***************************************************************************)
ThirtyDays == 2592000
SessionLifetime == 86400
LockoutDuration == 1800
MaxLoginAttempts == 5
MinPasswordLength == 6
ViewLockWindow == 1
LockReleaseDelay == 1
MinCommentLength == 2
MaxCommentLength == 1000
MinAuthorLength == 2
MaxAuthorLength == 20

(***************************************************************************)
(* Bounds of the model.                                                    *)
(***************************************************************************)
\* Date.now() at the start of a behaviour, seconds since the epoch: any
\* instant later than thirty days after the epoch.
StartTime == 3000000
\* A wrong password is no longer tried once loginAttempts has reached this.
MaxAttemptsTracked == 6
\* The login clock advances by at most this many single seconds ...
MaxSeconds == 1
\* ... and by at most this many lockout durations.
MaxLockouts == 1
\* generateId makes ids until nonce has reached this.
MaxIds == 7

(***************************************************************************)
(* Strings.                                                                *)
(***************************************************************************)
zcr == <<122, 99, 114>>
admin == <<97, 100, 109, 105, 110>>
bob == <<98, 111, 98>>
\* '20120508'
AdminPassword == <<50, 48, 49, 50, 48, 53, 48, 56>>
\* 'bob123'
BobPassword == <<98, 111, 98, 49, 50, 51>>
\* 'wrong1'
WrongPassword == <<119, 114, 111, 110, 103, 49>>
\* 'abc'
ShortPassword == <<97, 98, 99>>
\* 'admin-original'
AdminId == <<97, 100, 109, 105, 110, 45, 111, 114, 105, 103, 105, 110, 97, 108>>
\* 'zcr@blog.com'
AdminEmail == <<122, 99, 114, 64, 98, 108, 111, 103, 46, 99, 111, 109>>
\* 'bob@x.io'
BobEmail == <<98, 111, 98, 64, 120, 46, 105, 111>>
\* '管理员', the read-only display name of the admin in the comment form
AdminDisplayName == <<31649, 29702, 21592>>

\* The characters String.prototype.trim removes that occur in the model.
IsSpace(c) == c \in {9, 10, 13, 32}

RECURSIVE TrimStart(_)
TrimStart(s) ==
    IF s = <<>> THEN <<>>
    ELSE IF IsSpace(Head(s)) THEN TrimStart(Tail(s)) ELSE s

RECURSIVE TrimEnd(_)
TrimEnd(s) ==
    IF s = <<>> THEN <<>>
    ELSE IF IsSpace(s[Len(s)]) THEN TrimEnd(SubSeq(s, 1, Len(s) - 1)) ELSE s

Trim(s) == TrimEnd(TrimStart(s))

(***************************************************************************)
(* hashPassword: hash = ((hash << 5) - hash) + char, kept to 32 bits by    *)
(* hash & hash, then Math.abs(hash).toString(16).  The 32-bit value is     *)
(* held as two 16-bit halves <<hi, lo>>.                                   *)
(***************************************************************************)
HashStep(h, c) ==
    LET lo == h[2] * 31 + c
        hi == h[1] * 31 + (lo \div 65536)
    IN  <<hi % 65536, lo % 65536>>

RECURSIVE HashFold(_, _)
HashFold(h, s) == IF s = <<>> THEN h ELSE HashFold(HashStep(h, Head(s)), Tail(s))

\* Math.abs of the signed 32-bit value whose bits are h.
AbsInt32(h) ==
    IF h[1] < 32768 THEN h
    ELSE IF h[2] = 0 THEN <<65536 - h[1], 0>>
    ELSE <<65535 - h[1], 65536 - h[2]>>

HexDigit(d) == IF d < 10 THEN 48 + d ELSE 87 + d

RECURSIVE StripZeros(_)
StripZeros(s) ==
    IF Len(s) > 1 /\ Head(s) = 48 THEN StripZeros(Tail(s)) ELSE s

\* Number.prototype.toString(16) of the non-negative value h.
ToHex(h) ==
    StripZeros(<<HexDigit(h[1] \div 4096), HexDigit((h[1] \div 256) % 16),
                 HexDigit((h[1] \div 16) % 16), HexDigit(h[1] % 16),
                 HexDigit(h[2] \div 4096), HexDigit((h[2] \div 256) % 16),
                 HexDigit((h[2] \div 16) % 16), HexDigit(h[2] % 16)>>)

hashPassword(password) == ToHex(AbsInt32(HashFold(<<0, 0>>, password)))

(***************************************************************************)
(* JavaScript values.                                                      *)
(***************************************************************************)
Null == [t |-> "null"]
Undef == [t |-> "undef"]
Num(n) == [t |-> "num", n |-> n]
Bool(b) == [t |-> "bool", b |-> b]
Str(s) == [t |-> "str", s |-> s]
Iso(ms) == [t |-> "str", iso |-> ms]
Obj(fields) == [t |-> "obj", o |-> fields]

\* new Date(v) - the instant a date string denotes.
DateOf(v) == v.iso

\* ToBoolean.
Truthy(v) ==
    CASE v.t = "null" -> FALSE
      [] v.t = "undef" -> FALSE
      [] v.t = "bool" -> v.b
      [] v.t = "num" -> v.n # 0
      [] v.t = "str" -> IF "s" \in DOMAIN v THEN v.s # <<>> ELSE TRUE
      [] OTHER -> TRUE

\* obj.f: the value of the field, undefined when it is absent.
Get(obj, f) == IF f \in DOMAIN obj THEN obj[f] ELSE Undef

\* JSON.parse(JSON.stringify(v)) for an object of the model: a field whose
\* value is undefined is not written.
JsonObject(fields) ==
    LET kept == {f \in DOMAIN fields : fields[f].t # "undef"}
    IN  [f \in kept |-> fields[f]]

JsonValue(v) ==
    CASE v.t = "undef" -> Null
      [] v.t = "obj" -> Obj(JsonObject(v.o))
      [] OTHER -> v

(***************************************************************************)
(* State.                                                                  *)
(*                                                                         *)
(* localStorage is shared by the tabs: a key is [k |-> "absent"]           *)
(* (getItem returns null) or [k |-> "json", v |-> value], the value that   *)
(* JSON.parse makes of the stored text.  Everything else is per tab.       *)
(***************************************************************************)
VARIABLES
    now,            \* Date.now()
    nonce,          \* the number of ids generateId has produced
    blogUsers,      \* localStorage 'blogUsers'
    blogUser,       \* localStorage 'blogUser', the persisted session
    blogArticles,   \* localStorage 'blogArticles'
    blogComments,   \* localStorage 'blogComments'
    viewLock,       \* localStorage 'view_lock_<articleId>', by article id
    users,          \* this.users of each tab
    currentUser,    \* this.currentUser of each tab
    articles,       \* this.articles of each tab
    comments,       \* this.comments of each tab
    editingArticleId, \* this.editingArticleId of each tab
    viewed,         \* sessionStorage 'viewed_<articleId>' of each tab
    call,           \* the registerView call each tab has in flight
    timers,         \* the pending lock-release timers
    inbox,          \* the tabs with an undelivered storage event for blogArticles
    millis,         \* the milliseconds of Date.now() past the second now
    loginScreen,    \* the login screen of each tab and its timers
    last            \* what the last handler did (for stating properties)

storeVars == <<blogUsers, blogUser, blogArticles, blogComments, viewLock>>
memVars == <<users, currentUser, articles, comments, editingArticleId>>
screenVars == <<millis, loginScreen>>
viewVars == <<viewed, call, timers, inbox, screenVars>>
vars == <<now, nonce, storeVars, memVars, viewVars, last>>

Tabs == {"A", "B"}

Absent == [k |-> "absent"]
Stored(v) == [k |-> "json", v |-> v]
\* A stored text that JSON.parse rejects.
Unparsable == [k |-> "text"]
\* Under the key of a collection, the JSON text of null or of a number.
StoredValue(v) == [k |-> "value", parsed |-> v]

\* JSON.parse(JSON.stringify(array)) of an array of objects.
JsonArray(xs) == [i \in DOMAIN xs |-> JsonObject(xs[i])]

\* users.some(user => user.username === name)
HasUser(us, name) == \E i \in DOMAIN us : Get(us[i], "username") = Str(name)

\* The index of users.find(user => user.username === name), 0 when none.
FindUser(us, name) ==
    IF HasUser(us, name)
    THEN CHOOSE i \in DOMAIN us :
            /\ Get(us[i], "username") = Str(name)
            /\ \A j \in 1..(i - 1) : Get(us[j], "username") # Str(name)
    ELSE 0

(***************************************************************************)
(* safeGetLocalStorage('blogUsers', []) by a tab whose this.users is mem:  *)
(* ret is the value the promise resolves to, st the key afterwards.        *)
(***************************************************************************)
ValidUserEntry(u) == Truthy(Get(u, "username")) /\ Truthy(Get(u, "password"))

\* The repair mistaken: a stored collection that lost 'zcr' is left alone.
GetUsersKeepingLoss(st, mem) ==
    IF st.k = "absent"
    THEN IF Len(mem) > 0
         THEN [ret |-> mem, st |-> Stored(JsonArray(mem))]
         ELSE [ret |-> <<>>, st |-> st]
    ELSE IF st.k \in {"text", "value"}
    THEN [ret |-> <<>>, st |-> st]
    ELSE LET parsed == st.v
             validUsers == SelectSeq(parsed, ValidUserEntry)
         IN  IF Len(parsed) = 0 /\ Len(mem) > 0
             THEN [ret |-> mem, st |-> Stored(JsonArray(mem))]
             ELSE IF Len(validUsers) # Len(parsed)
             THEN [ret |-> validUsers, st |-> Stored(JsonArray(validUsers))]
             ELSE [ret |-> parsed, st |-> st]

\* When JSON.parse throws, or parsed is null or a number (of which .length
\* or .some throws), the read resolves to the default, [].
GetUsersRepairing(st, mem) ==
    IF st.k = "absent"
    THEN IF Len(mem) > 0
         THEN [ret |-> mem, st |-> Stored(JsonArray(mem))]
         ELSE [ret |-> <<>>, st |-> st]
    ELSE IF st.k \in {"text", "value"}
    THEN [ret |-> <<>>, st |-> st]
    ELSE LET parsed == st.v
             validUsers == SelectSeq(parsed, ValidUserEntry)
         IN  IF Len(parsed) = 0 /\ Len(mem) > 0
             THEN [ret |-> mem, st |-> Stored(JsonArray(mem))]
             ELSE IF ~HasUser(parsed, zcr) /\ Len(mem) > 0 /\ HasUser(mem, zcr)
             THEN [ret |-> mem, st |-> Stored(JsonArray(mem))]
             ELSE IF Len(validUsers) # Len(parsed)
             THEN [ret |-> validUsers, st |-> Stored(JsonArray(validUsers))]
             ELSE [ret |-> parsed, st |-> st]

safeGetLocalStorageUsers(st, mem) == GetUsersRepairing(st, mem)

\* safeGetLocalStorage mistaken: a text that does not parse reads as null.
safeGetLocalStorageNull(st, defaultValue) ==
    IF st.k = "absent" THEN defaultValue
    ELSE IF st.k = "text" THEN Null ELSE st.v

\* safeGetLocalStorage(key, defaultValue) for the other keys.
safeGetLocalStorage(st, defaultValue) ==
    IF st.k \in {"absent", "text"} THEN defaultValue
    ELSE IF st.k = "value" THEN st.parsed ELSE st.v

\* safeSetLocalStorage(key, value): the key after JSON.stringify and setItem.
safeSetLocalStorage(value) == Stored(value)

(***************************************************************************)
(* initializeAdminAccount by a tab whose this.users is mem: mem is         *)
(* this.users afterwards, st the key blogUsers afterwards.                 *)
(***************************************************************************)
AdminDigest == hashPassword(AdminPassword)

adminAccount(t) ==
    [id |-> Str(AdminId), username |-> Str(zcr),
     password |-> Str(AdminDigest), isAdmin |-> Bool(TRUE),
     email |-> Str(AdminEmail), createdAt |-> Iso(t), lastLogin |-> Null,
     loginAttempts |-> Num(0), lockedUntil |-> Null]

NotOldAdmin(u) == Get(u, "username") # Str(admin)

RequiredAdminFields == {"id", "isAdmin", "email", "createdAt"}

\* A slip in the field check: createdAt is stamped anew at every run.
PatchedAdminRestamped(existingAdmin, t) ==
    [f \in DOMAIN existingAdmin \cup RequiredAdminFields \cup {"password"} |->
        IF f = "password" THEN Str(AdminDigest)
        ELSE IF f = "createdAt" THEN Iso(t)
        ELSE IF f \in DOMAIN existingAdmin THEN existingAdmin[f]
        ELSE adminAccount(t)[f]]

\* existingAdmin after the password check and the required-field check.
PatchedAdmin(existingAdmin, t) ==
    [f \in DOMAIN existingAdmin \cup RequiredAdminFields \cup {"password"} |->
        IF f = "password" THEN Str(AdminDigest)
        ELSE IF f \in DOMAIN existingAdmin THEN existingAdmin[f]
        ELSE adminAccount(t)[f]]

\* this.users = us; safeSetLocalStorage('blogUsers', this.users)
SaveUsers(us) == [mem |-> us, st |-> safeSetLocalStorage(JsonArray(us))]

\* The branch taken when no user is named 'zcr'.
CreateAdmin(us, t) == SaveUsers(Append(SelectSeq(us, NotOldAdmin), adminAccount(t)))

\* The branch taken when users[i] is the admin: saved only if needsUpdate.
CheckAdmin(got, i, patched) ==
    IF patched # got.ret[i]
    THEN SaveUsers([got.ret EXCEPT ![i] = patched])
    ELSE [mem |-> got.ret, st |-> got.st]

EnsureAdmin(got, i, t) ==
    IF i = 0 THEN CreateAdmin(got.ret, t)
    ELSE CheckAdmin(got, i, PatchedAdmin(got.ret[i], t))

EnsureAdminIn(got, t) == EnsureAdmin(got, FindUser(got.ret, zcr), t)

initializeAdminAccount(st, mem, t) ==
    EnsureAdminIn(safeGetLocalStorageUsers(st, mem), t)

(***************************************************************************)
(* validateDataIntegrity: the first read of blogUsers is not assigned to   *)
(* this.users; createDataBackup reads blogUsers once more.                 *)
(***************************************************************************)
\* safeGetLocalStorage('blogUsers', []) after an operation left r.
ReadUsersAfter(r) == safeGetLocalStorageUsers(r.st, r.mem)

\* this.users = await safeGetLocalStorage('blogUsers', []), twice in a row.
ReadUsersAgain(got) == safeGetLocalStorageUsers(got.st, got.ret)

createDataBackup(r) == [mem |-> r.mem, st |-> ReadUsersAfter(r).st]

CheckIntegrity(got, mem, t) ==
    createDataBackup(IF ~HasUser(got.ret, zcr)
                     THEN initializeAdminAccount(got.st, mem, t)
                     ELSE [mem |-> mem, st |-> got.st])

validateDataIntegrity(st, mem, t) ==
    CheckIntegrity(safeGetLocalStorageUsers(st, mem), mem, t)

(***************************************************************************)
(* validateUserObject(user) at the instant t.                              *)
(***************************************************************************)
ValidUsername(username) ==
    /\ Truthy(username) /\ username.t = "str"
    /\ ("s" \in DOMAIN username => Trim(username.s) # <<>>)

\* A slip at the boundary: a session of exactly thirty days is too old.
ValidLoginTimeStrict(loginTime, t) ==
    /\ Truthy(loginTime) /\ loginTime.t = "num"
    /\ ~(t - loginTime.n >= ThirtyDays)

ValidLoginTime(loginTime, t) ==
    /\ Truthy(loginTime) /\ loginTime.t = "num"
    /\ ~(t - loginTime.n > ThirtyDays)

validateUserObject(user, t) ==
    /\ Truthy(user) /\ user.t = "obj"
    /\ ValidUsername(Get(user.o, "username"))
    /\ ValidLoginTime(Get(user.o, "loginTime"), t)
    /\ \A field \in {"username", "loginTime", "isAdmin"} : field \in DOMAIN user.o

(***************************************************************************)
(* Helpers of the handlers.                                                *)
(***************************************************************************)
\* obj.f = v
Put(obj, f, v) == [g \in DOMAIN obj \cup {f} |-> IF g = f THEN v ELSE obj[g]]

\* (v || 0) for a counter
NumberOrZero(v) == IF Truthy(v) THEN v.n ELSE 0

\* The record of the user named name in a stored or in-memory collection,
\* Undef when there is none.
UserOf(us, name) == IF HasUser(us, name) THEN Obj(us[FindUser(us, name)]) ELSE Undef

StoredUsers == safeGetLocalStorage(blogUsers, <<>>)

\* A slip in the lockout test: the comparison the wrong way round.
IsLockedOutReversed(user, t) ==
    Truthy(Get(user, "lockedUntil")) /\ t > DateOf(Get(user, "lockedUntil"))

\* A lockout test that also refuses a user whom the admin has locked.
IsLockedOutOrFlagged(user, t) ==
    \/ Truthy(Get(user, "isLocked"))
    \/ Truthy(Get(user, "lockedUntil")) /\ t < DateOf(Get(user, "lockedUntil"))

\* user.lockedUntil && new Date() < new Date(user.lockedUntil)
IsLockedOut(user, t) ==
    Truthy(Get(user, "lockedUntil")) /\ t < DateOf(Get(user, "lockedUntil"))

(***************************************************************************)
(* handleLoginScreen, with the form holding usernameInput and password.    *)
(***************************************************************************)
\* The session object a successful login builds.
LoginSession(user, t) ==
    Obj([id |-> Get(user, "id"), username |-> Get(user, "username"),
         isAdmin |-> Get(user, "isAdmin"), email |-> Get(user, "email"),
         loginTime |-> Iso(t), sessionExpiry |-> Num(t + SessionLifetime)])

\* The user record after a successful login.
LoggedInUser(user, t) ==
    Put(Put(Put(user, "loginAttempts", Num(0)), "lockedUntil", Null),
        "lastLogin", Iso(t))

\* The failure counted wrongly: the lock comes one failure late.
CountFailureLate(user, attempts, t) ==
    IF attempts > MaxLoginAttempts
    THEN Put(Put(user, "loginAttempts", Num(attempts)), "lockedUntil",
             Iso(t + LockoutDuration))
    ELSE Put(user, "loginAttempts", Num(attempts))

\* The user record after a wrong password.
CountFailure(user, attempts, t) ==
    IF attempts >= MaxLoginAttempts
    THEN Put(Put(user, "loginAttempts", Num(attempts)), "lockedUntil",
             Iso(t + LockoutDuration))
    ELSE Put(user, "loginAttempts", Num(attempts))

\* A slip in the failure branch: a lockout that has elapsed starts the count
\* afresh.
FailedLoginUserAfresh(user, t) ==
    CountFailure(user,
                 (IF Get(user, "lockedUntil") = Null
                  THEN NumberOrZero(Get(user, "loginAttempts")) ELSE 0) + 1, t)

FailedLoginUser(user, t) ==
    CountFailure(user, NumberOrZero(Get(user, "loginAttempts")) + 1, t)

\* The admin is created anew when it is missing and it is the admin who
\* logs in.
HealAdmin(first, username, t) ==
    IF ~HasUser(first.ret, zcr) /\ username = zcr
    THEN ReadUsersAfter(initializeAdminAccount(first.st, first.ret, t))
    ELSE first

\* this.users and blogUsers when the handler comes to look the user up.
LoginUsers(st, mem, username, t) ==
    ReadUsersAgain(HealAdmin(ReadUsersAfter(validateDataIntegrity(st, mem, t)),
                             username, t))

\* prior is the user's loginAttempts when the handler looked the user up.
LoginResult(tab, username, password, res, prior) ==
    [op |-> "login", tab |-> tab, username |-> username, password |-> password,
     res |-> res, prior |-> prior]

\* The handler leaves with this.users reloaded and nothing else changed.
LoginRefused(tab, got) ==
    /\ users' = [users EXCEPT ![tab] = got.ret]
    /\ blogUsers' = got.st
    /\ UNCHANGED <<now, nonce, blogUser, blogArticles, blogComments, viewLock,
                   currentUser, articles, comments, editingArticleId, viewVars>>

LoginSucceeds(tab, after, session) ==
    /\ users' = [users EXCEPT ![tab] = after]
    /\ currentUser' = [currentUser EXCEPT ![tab] = session]
    /\ blogUsers' = safeSetLocalStorage(JsonArray(after))
    /\ blogUser' = safeSetLocalStorage(JsonValue(session))
    /\ UNCHANGED <<now, nonce, blogArticles, blogComments, viewLock, articles,
                   comments, editingArticleId, viewVars>>

LoginFails(tab, after) ==
    /\ users' = [users EXCEPT ![tab] = after]
    /\ blogUsers' = safeSetLocalStorage(JsonArray(after))
    /\ UNCHANGED <<now, nonce, blogUser, blogArticles, blogComments, viewLock,
                   currentUser, articles, comments, editingArticleId, viewVars>>

LoginCheck(tab, username, password, got, i, prior) ==
    IF IsLockedOut(got.ret[i], now)
    THEN /\ LoginRefused(tab, got)
         /\ last' = LoginResult(tab, username, password, "AccountLocked", prior)
    ELSE IF Get(got.ret[i], "password") = Str(hashPassword(password))
    THEN /\ LoginSucceeds(tab, [got.ret EXCEPT ![i] = LoggedInUser(got.ret[i], now)],
                          LoginSession(LoggedInUser(got.ret[i], now), now))
         /\ last' = LoginResult(tab, username, password, "ok", prior)
    ELSE /\ prior < MaxAttemptsTracked
         /\ LoginFails(tab, [got.ret EXCEPT ![i] = FailedLoginUser(got.ret[i], now)])
         /\ last' = LoginResult(tab, username, password, "WrongPassword", prior)

LoginDecide(tab, username, password, got, i) ==
    IF i = 0
    THEN /\ LoginRefused(tab, got)
         /\ last' = LoginResult(tab, username, password, "UserNotFound", 0)
    ELSE LoginCheck(tab, username, password, got, i,
                    NumberOrZero(Get(got.ret[i], "loginAttempts")))

LoginLookup(tab, username, password, got) ==
    LoginDecide(tab, username, password, got, FindUser(got.ret, username))

LoginSubmit(tab, username, password) ==
    IF username = <<>> \/ password = <<>> \/ Len(password) < MinPasswordLength
    THEN /\ last' = LoginResult(tab, username, password, "InvalidInput", 0)
         /\ UNCHANGED <<now, nonce, storeVars, memVars, viewVars>>
    ELSE LoginLookup(tab, username, password,
                     LoginUsers(blogUsers, users[tab], username, now))

handleLoginScreen(tab, usernameInput, password) ==
    LoginSubmit(tab, Trim(usernameInput), password)

(***************************************************************************)
(* handleLogout.                                                           *)
(***************************************************************************)
\* A slip in handleLogout: the stored session is left as it is.
handleLogoutInMemory(tab) ==
    /\ currentUser' = [currentUser EXCEPT ![tab] = Null]
    /\ last' = [op |-> "logout", tab |-> tab]
    /\ UNCHANGED <<now, nonce, storeVars, users, articles, comments,
                   editingArticleId, viewVars>>

handleLogout(tab) ==
    /\ currentUser' = [currentUser EXCEPT ![tab] = Null]
    /\ blogUser' = safeSetLocalStorage(Null)
    /\ last' = [op |-> "logout", tab |-> tab]
    /\ UNCHANGED <<now, nonce, blogUsers, blogArticles, blogComments, viewLock,
                   users, articles, comments, editingArticleId, viewVars>>

(***************************************************************************)
(* A tab that has finished initializeApp on an origin that holds the       *)
(* admin account, one registered user and the sample article.             *)
(***************************************************************************)
\* generateId(): Date.now().toString(36) + Math.random().toString(36),
\* the n-th id made, at the instant t.  Two ids never collide.
generateId(t, n) == <<t, n>>

\* The record handleRegisterScreen appends for bob.
BobAccount ==
    [id |-> Str(generateId(StartTime, 0)), username |-> Str(bob),
     email |-> Str(BobEmail), password |-> Str(hashPassword(BobPassword)),
     isAdmin |-> Bool(FALSE), createdAt |-> Iso(StartTime), lastLogin |-> Null,
     loginAttempts |-> Num(0), lockedUntil |-> Null]

\* 'thoughts'
Thoughts == <<116, 104, 111, 117, 103, 104, 116, 115>>
\* Stands for the title and the text of the sample article.
SampleTitle == <<27426, 36814>>
SampleContent == <<36825, 26159>>

\* The article initializeSampleData appends.
SampleArticle ==
    [id |-> Str(generateId(StartTime, 1)), title |-> Str(SampleTitle),
     category |-> Str(Thoughts), content |-> Str(SampleContent),
     createdAt |-> Iso(StartTime), views |-> Num(0)]

SampleId == generateId(StartTime, 1)

InitialUsers == <<adminAccount(StartTime), BobAccount>>

Unopened(v) == [tab \in Tabs |-> v]

\* No view_lock_ key is stored.
NoLocks == [a \in {} |-> Absent]

\* A tab with no registerView call in flight; increased holds the articles
\* for which incrementViewsSafely has returned increased: true in the tab.
NoCall == [pc |-> "idle", increased |-> {}]

\* The login screen as the constructor and the markup leave it: it has never
\* been shown by showLoginScreen, no timer is pending, and the element has no
\* inline style.  mainContent is the inline display of .main-content.
NewScreen ==
    [loginScreenShowTime |-> 0, hideLoginTimer |-> 0, display |-> "",
     opacity |-> "", mainContent |-> "", pending |-> {}]

InitCommon ==
    /\ now = StartTime
    /\ viewLock = NoLocks
    /\ editingArticleId = Unopened(Null)
    /\ viewed = Unopened({})
    /\ call = Unopened(NoCall)
    /\ timers = {}
    /\ inbox = {}
    /\ millis = 0
    /\ loginScreen = Unopened(NewScreen)
    /\ last = [op |-> "init"]

(***************************************************************************)
(* Logging in and out in one tab, with the clock advancing.                *)
(***************************************************************************)
\* What is typed into the login form: the admin logs in, bob logs in or
\* mistypes, a name nobody has, a blank name.
LoginForms ==
    {<<zcr, AdminPassword>>, <<bob, BobPassword>>, <<bob, WrongPassword>>,
     <<bob, ShortPassword>>, <<admin, WrongPassword>>, <<<<32>>, BobPassword>>}

LoginInstants ==
    {StartTime + s + LockoutDuration * k : s \in 0..MaxSeconds, k \in 0..MaxLockouts}

TickLogin ==
    /\ now' \in {t \in LoginInstants : t > now}
    /\ last' = [op |-> "tick"]
    /\ UNCHANGED <<nonce, storeVars, memVars, viewVars>>

InitLogin ==
    /\ InitCommon
    /\ nonce = 2
    /\ blogArticles = Stored(<<SampleArticle>>)
    /\ blogUsers = Stored(InitialUsers)
    /\ blogUser \in {Absent, Stored(Null)}
    /\ blogComments = Absent
    /\ users = [tab \in Tabs |-> IF tab = "A" THEN InitialUsers ELSE <<>>]
    /\ currentUser = Unopened(Null)
    /\ articles = [tab \in Tabs |-> IF tab = "A" THEN <<SampleArticle>> ELSE <<>>]
    /\ comments = Unopened(<<>>)

NextLogin ==
    \/ \E form \in LoginForms : handleLoginScreen("A", form[1], form[2])
    \/ handleLogout("A")
    \/ TickLogin

SpecLogin == InitLogin /\ [][NextLogin]_vars

(***************************************************************************)
(* Properties.                                                             *)
(***************************************************************************)
\* The instant a loginTime denotes, as a number or as a date string.
InstantOf(v) == IF v.t = "num" THEN v.n ELSE DateOf(v)

LoggedInNow(tab) == last.op = "login" /\ last.tab = tab /\ last.res = "ok"

\* C1: immediately after a successful login the session the handler made
\* passes validateUserObject, and its sessionExpiry is its loginTime plus
\* exactly 24 hours.
C1_LoginSessionValid ==
    \A tab \in Tabs :
        LoggedInNow(tab) =>
            /\ validateUserObject(currentUser[tab], now)
            /\ currentUser[tab].o.sessionExpiry
                 = Num(InstantOf(currentUser[tab].o.loginTime) + SessionLifetime)

\* A login attempt that passed the input validation has just been handled.
AttemptStep(tab) ==
    last'.op = "login" /\ last'.tab = tab /\ last'.res # "InvalidInput"

PasswordMatches(user, password) ==
    Get(user, "password") = Str(hashPassword(password))

\* The record has a lockedUntil that lies in the future.
LockedUntilInFuture(user) ==
    /\ "lockedUntil" \in DOMAIN user
    /\ "iso" \in DOMAIN user.lockedUntil
    /\ user.lockedUntil.iso > now

\* What the claim says of an attempt on the stored record `before`.
LockoutRule(before, after, res, password) ==
    /\ LockedUntilInFuture(before.o) =>
          /\ res = "AccountLocked"
          /\ after = before
          /\ blogUser' = blogUser
          /\ currentUser' = currentUser
    /\ (~LockedUntilInFuture(before.o) /\ PasswordMatches(before.o, password)) =>
          /\ res = "ok"
          /\ Get(after.o, "loginAttempts") = Num(0)
          /\ Get(after.o, "lockedUntil") = Null
    /\ (res = "WrongPassword"
          /\ NumberOrZero(Get(after.o, "loginAttempts")) >= MaxLoginAttempts) =>
          LockedUntilInFuture(after.o)

\* C2: once five consecutive wrong passwords have locked a user, every
\* attempt made while lockedUntil is in the future fails as AccountLocked,
\* even with the correct password, and changes neither the user record nor
\* the session; a correct password after lockedUntil has elapsed logs in and
\* sets loginAttempts to 0 and lockedUntil to null.
C2_Lockout ==
    [][\A tab \in Tabs :
          (AttemptStep(tab) /\ HasUser(StoredUsers, last'.username)) =>
              LockoutRule(UserOf(StoredUsers, last'.username),
                          UserOf(safeGetLocalStorage(blogUsers', <<>>),
                                 last'.username),
                          last'.res, last'.password)]_vars

\* The correct password has just been refused because the account is locked.
C2_Witness ==
    /\ last.op = "login" /\ last.res = "AccountLocked"
    /\ last.username = bob /\ last.password = BobPassword
    /\ NumberOrZero(Get(UserOf(StoredUsers, bob).o, "loginAttempts"))
         = MaxLoginAttempts

\* A correct password has been accepted after a lockout had elapsed.
C2_Recovered ==
    /\ last.op = "login" /\ last.res = "ok" /\ last.username = bob
    /\ last.prior >= MaxLoginAttempts


(***************************************************************************)
(* showArticle and the view counter.  The storage steps of one call are    *)
(* separate actions, so that the calls of two tabs can interleave:         *)
(*   showArticle          the article is looked up in this.articles, the   *)
(*                        session marker is tested and set, the lock is    *)
(*                        read (incrementViewsSafely, updateViewsWithLock) *)
(*   setViewLock          the lock is written                              *)
(*   readStoredArticles   blogArticles is read, the counter is raised in   *)
(*                        the copy                                         *)
(*   writeStoredArticles  the copy is written, the release of the lock is  *)
(*                        scheduled, this.articles is patched              *)
(*   syncAllViewDisplays  this.articles is reloaded                        *)
(*   releaseViewLock      a release timer fires                            *)
(***************************************************************************)
Idle(tab) == call[tab].pc = "idle"

\* localStorage.getItem('view_lock_' + a)
LockOf(a) == IF a \in DOMAIN viewLock THEN viewLock[a] ELSE Absent

\* The view_lock_ keys after view_lock_<a> has been set or removed.
SetLock(a, v) ==
    [b \in DOMAIN viewLock \cup {a} |-> IF b = a THEN v ELSE viewLock[b]]

HasArticle(as, a) == \E i \in DOMAIN as : Get(as[i], "id") = Str(a)

\* articles.findIndex(a => a.id === articleId), 0 when there is none.
FindArticle(as, a) ==
    IF HasArticle(as, a)
    THEN CHOOSE i \in DOMAIN as :
            /\ Get(as[i], "id") = Str(a)
            /\ \A j \in 1..(i - 1) : Get(as[j], "id") # Str(a)
    ELSE 0

\* A slip in incrementViewsSafely: the session marker is never found.
hasViewedNever(tab, articleId) == FALSE

\* sessionStorage.getItem('viewed_' + articleId)
hasViewed(tab, articleId) == articleId \in viewed[tab]

\* existingLock && (Date.now() - parseInt(existingLock)) < 1000
LockHeld(existingLock, t) ==
    existingLock.k # "absent" /\ t - existingLock.v < ViewLockWindow

ViewResult(tab, articleId, res) ==
    [op |-> "view", tab |-> tab, article |-> articleId, res |-> res]

ViewStep(tab, articleId, pc) ==
    [op |-> "step", tab |-> tab, article |-> articleId, pc |-> pc]

\* The call of the tab goes on to the step pc, carrying more.
Proceed(tab, pc, more) ==
    [call EXCEPT ![tab] =
        [f \in {"pc", "increased"} \cup DOMAIN more |->
            IF f = "pc" THEN pc
            ELSE IF f = "increased" THEN call[tab].increased
            ELSE more[f]]]

\* The call of the tab is over.
Return(tab, increased) ==
    [call EXCEPT ![tab] = [pc |-> "idle", increased |-> increased]]

\* storedArticles[i].views = (storedArticles[i].views || 0) + 1
RaiseViews(article) ==
    Put(article, "views", Num(NumberOrZero(Get(article, "views")) + 1))

\* The storage event of a write of st under blogArticles by the tab: it is
\* sent to every other tab, when the write changes what the key holds.
Notify(tab, st) ==
    inbox' = IF st # blogArticles THEN inbox \cup (Tabs \ {tab}) ELSE inbox

\* setTimeout(() => localStorage.removeItem(lockId), 1000)
ReleaseTimer(tab, articleId, t) ==
    [tab |-> tab, article |-> articleId, due |-> t + LockReleaseDelay]

showArticle(tab, articleId) ==
    /\ Idle(tab)
    /\ IF ~HasArticle(articles[tab], articleId)
       THEN /\ last' = ViewResult(tab, articleId, "NotFound")
            /\ UNCHANGED <<now, nonce, storeVars, memVars, viewVars>>
       ELSE IF hasViewed(tab, articleId)
       THEN /\ last' = ViewResult(tab, articleId, "AlreadyViewed")
            /\ UNCHANGED <<now, nonce, storeVars, memVars, viewVars>>
       ELSE /\ viewed' = [viewed EXCEPT ![tab] = @ \cup {articleId}]
            /\ IF LockHeld(LockOf(articleId), now)
               THEN /\ last' = ViewResult(tab, articleId, "RateLimited")
                    /\ call' = call
               ELSE /\ last' = ViewStep(tab, articleId, "showArticle")
                    /\ call' = Proceed(tab, "setLock",
                                       [article |-> articleId, lockTimestamp |-> now])
            /\ UNCHANGED <<now, nonce, storeVars, memVars, timers, inbox, screenVars>>

setViewLock(tab) ==
    /\ call[tab].pc = "setLock"
    /\ viewLock' = SetLock(call[tab].article, Stored(call[tab].lockTimestamp))
    /\ call' = Proceed(tab, "read", [article |-> call[tab].article])
    /\ last' = ViewStep(tab, call[tab].article, "setLock")
    /\ UNCHANGED <<now, nonce, blogUsers, blogUser, blogArticles, blogComments,
                   memVars, viewed, timers, inbox, screenVars>>

\* The read found no article of that id: the lock release is scheduled and
\* the call returns not increased.
ReadMissed(tab, articleId) ==
    /\ timers' = timers \cup {ReleaseTimer(tab, articleId, now)}
    /\ call' = Return(tab, call[tab].increased)
    /\ last' = ViewResult(tab, articleId, "Missing")

ReadFound(tab, articleId, storedArticles, i) ==
    /\ call' = Proceed(tab, "write",
                       [article |-> articleId, index |-> i,
                        storedArticles |->
                            [storedArticles EXCEPT ![i] = RaiseViews(@)]])
    /\ last' = ViewStep(tab, articleId, "read")
    /\ timers' = timers

ReadArticles(tab, articleId, storedArticles) ==
    IF HasArticle(storedArticles, articleId)
    THEN ReadFound(tab, articleId, storedArticles,
                   FindArticle(storedArticles, articleId))
    ELSE ReadMissed(tab, articleId)

readStoredArticles(tab) ==
    /\ call[tab].pc = "read"
    /\ ReadArticles(tab, call[tab].article, safeGetLocalStorage(blogArticles, <<>>))
    /\ UNCHANGED <<now, nonce, storeVars, memVars, viewed, inbox, screenVars>>

\* this.articles[articleIndex] = updatedArticle, when the article is there.
PatchArticle(as, articleId, updatedArticle) ==
    IF HasArticle(as, articleId)
    THEN [as EXCEPT ![FindArticle(as, articleId)] = updatedArticle]
    ELSE as

writeStoredArticles(tab) ==
    /\ call[tab].pc = "write"
    /\ blogArticles' = safeSetLocalStorage(JsonArray(call[tab].storedArticles))
    /\ Notify(tab, safeSetLocalStorage(JsonArray(call[tab].storedArticles)))
    /\ timers' = timers \cup {ReleaseTimer(tab, call[tab].article, now)}
    /\ articles' = [articles EXCEPT ![tab] =
                       PatchArticle(@, call[tab].article,
                                    call[tab].storedArticles[call[tab].index])]
    /\ call' = [call EXCEPT ![tab] =
                   [pc |-> "sync",
                    increased |-> call[tab].increased \cup {call[tab].article}]]
    /\ last' = ViewResult(tab, call[tab].article, "Increased")
    /\ UNCHANGED <<now, nonce, blogUsers, blogUser, blogComments, viewLock, users,
                   currentUser, comments, editingArticleId, viewed, screenVars>>

syncAllViewDisplays(tab) ==
    /\ call[tab].pc = "sync"
    /\ articles' = [articles EXCEPT ![tab] = safeGetLocalStorage(blogArticles, <<>>)]
    /\ call' = Return(tab, call[tab].increased)
    /\ last' = [op |-> "sync", tab |-> tab]
    /\ UNCHANGED <<now, nonce, storeVars, users, currentUser, comments,
                   editingArticleId, viewed, timers, inbox, screenVars>>

\* A release that checks what it removes: a lock written after the timer was
\* set is left in place.
releaseOwnViewLock ==
    \E timer \in timers :
        /\ now >= timer.due
        /\ viewLock' =
               IF LockOf(timer.article).k # "absent"
                  /\ LockOf(timer.article).v > timer.due - LockReleaseDelay
               THEN viewLock
               ELSE SetLock(timer.article, Absent)
        /\ timers' = timers \ {timer}
        /\ last' = [op |-> "release", tab |-> timer.tab, due |-> timer.due,
                    removed |-> LockOf(timer.article)]
        /\ UNCHANGED <<now, nonce, blogUsers, blogUser, blogArticles, blogComments,
                       memVars, viewed, call, inbox, screenVars>>

releaseViewLock ==
    \E timer \in timers :
        /\ now >= timer.due
        /\ viewLock' = SetLock(timer.article, Absent)
        /\ timers' = timers \ {timer}
        /\ last' = [op |-> "release", tab |-> timer.tab, due |-> timer.due,
                    removed |-> LockOf(timer.article)]
        /\ UNCHANGED <<now, nonce, blogUsers, blogUser, blogArticles, blogComments,
                       memVars, viewed, call, inbox, screenVars>>

(***************************************************************************)
(* Reading articles: one tab, or two tabs whose calls interleave.          *)
(***************************************************************************)
\* 'tech'
Tech == <<116, 101, 99, 104>>
\* Stands for the title and the text of an article the admin has published.
SecondTitle == <<31508, 35760>>
SecondContent == <<27491, 25991>>

\* An article saveArticle has appended, read three times since.
SecondArticle ==
    [id |-> Str(generateId(StartTime, 2)), title |-> Str(SecondTitle),
     category |-> Str(Tech), content |-> Str(SecondContent),
     createdAt |-> Iso(StartTime), updatedAt |-> Iso(StartTime), views |-> Num(3)]

SecondId == generateId(StartTime, 2)

\* The id of no article.
MissingId == generateId(StartTime, 99)

InitialArticles == <<SampleArticle, SecondArticle>>

\* The articles a reader asks for.
ShownIds == {SampleId, SecondId, MissingId}

\* The clock of the readers advances second by second, this many times.
MaxViewSeconds == 2

TickViews ==
    /\ now < StartTime + MaxViewSeconds
    /\ now' = now + 1
    /\ last' = [op |-> "tick"]
    /\ UNCHANGED <<nonce, storeVars, memVars, viewVars>>

\* The tabs of open have finished initializeApp, nobody is logged in.
InitViews(open) ==
    /\ InitCommon
    /\ nonce = 3
    /\ blogArticles = Stored(InitialArticles)
    /\ blogUsers = Stored(InitialUsers)
    /\ blogUser = Absent
    /\ blogComments = Absent
    /\ users = [tab \in Tabs |-> IF tab \in open THEN InitialUsers ELSE <<>>]
    /\ currentUser = Unopened(Null)
    /\ articles = [tab \in Tabs |-> IF tab \in open THEN InitialArticles ELSE <<>>]
    /\ comments = Unopened(<<>>)

InitOneTab == InitViews({"A"})

NextViews ==
    \/ \E articleId \in ShownIds : showArticle("A", articleId)
    \/ setViewLock("A")
    \/ readStoredArticles("A")
    \/ writeStoredArticles("A")
    \/ syncAllViewDisplays("A")
    \/ releaseViewLock
    \/ TickViews

SpecViews == InitOneTab /\ [][NextViews]_vars

InitTwoTabs == InitViews(Tabs)

\* The articles the readers of two tabs ask for.
SharedIds == {SampleId, MissingId}

NextTabs ==
    \/ \E tab \in Tabs, articleId \in SharedIds : showArticle(tab, articleId)
    \/ \E tab \in Tabs : setViewLock(tab)
    \/ \E tab \in Tabs : readStoredArticles(tab)
    \/ \E tab \in Tabs : writeStoredArticles(tab)
    \/ \E tab \in Tabs : syncAllViewDisplays(tab)
    \/ releaseViewLock
    \/ TickViews

SpecTabs == InitTwoTabs /\ [][NextTabs]_vars

\* The views of the stored article of that id.
StoredViews(articleId) ==
    LET stored == safeGetLocalStorage(blogArticles, <<>>)
    IN  NumberOrZero(Get(stored[FindArticle(stored, articleId)], "views"))

\* The views the article had when the tabs were opened.
InitialViews(articleId) ==
    InitialArticles[FindArticle(InitialArticles, articleId)].views.n

StoredIds == {SampleId, SecondId}

\* A call of showArticle for the article starts in the tab with this step.
CallStarts(tab, articleId) ==
    /\ Idle(tab)
    /\ last'.op \in {"view", "step"}
    /\ last'.tab = tab /\ last'.article = articleId

\* C3: within one tab session the calls of registerView for an existing
\* article raise its stored views by exactly 1 in total: once the tab has
\* called for the article and is idle again the stored views are the initial
\* views plus 1, and a call that finds the session marker returns not
\* increased at once, leaving the article collection and the lock untouched.
C3_TwoCallsOneView ==
    /\ [](Idle("A") =>
            \A articleId \in StoredIds :
                StoredViews(articleId) = InitialViews(articleId)
                    + (IF articleId \in viewed["A"] THEN 1 ELSE 0))
    /\ [][\A articleId \in StoredIds :
            (CallStarts("A", articleId) /\ articleId \in viewed["A"]) =>
                /\ last'.op = "view" /\ last'.res = "AlreadyViewed"
                /\ blogArticles' = blogArticles
                /\ viewLock' = viewLock
                /\ call' = call]_vars

\* The second call for the sample article has returned: not increased, the
\* views raised once.
C3_Witness ==
    /\ last = ViewResult("A", SampleId, "AlreadyViewed")
    /\ StoredViews(SampleId) = InitialViews(SampleId) + 1
    /\ now > StartTime

\* C4: when the calls of two tabs have returned, the stored views of an
\* article are its initial views plus the number of calls that reported an
\* increase.
C4_NoLostIncrement ==
    (\A tab \in Tabs : Idle(tab)) =>
        \A articleId \in StoredIds :
            StoredViews(articleId) = InitialViews(articleId)
                + Cardinality({tab \in Tabs : articleId \in call[tab].increased})

(***************************************************************************)
(* Comments.                                                               *)
(***************************************************************************)
\* 'comment_' + Date.now() + '_' + Math.random().toString(36).substr(2, 9),
\* the n-th id made, at the instant t.
CommentId(t, n) == <<t, n>>

\* this.currentUser && this.currentUser.isAdmin
SessionIsAdmin(session) ==
    IF Truthy(session) THEN Get(session.o, "isAdmin") ELSE session

\* The comment object submitComment builds.
NewComment(articleId, author, content, session, t, n) ==
    [id |-> Str(CommentId(t, n)), articleId |-> articleId,
     author |-> Str(Trim(author)), content |-> Str(Trim(content)),
     createdAt |-> Iso(t), isAdmin |-> SessionIsAdmin(session),
     isPinned |-> Bool(FALSE)]

CommentResult(tab, articleId, author, content, res) ==
    [op |-> "comment", tab |-> tab, articleId |-> articleId, author |-> author,
     content |-> content, res |-> res]

\* The comments of one tab stop growing at this length.
MaxComments == 1

\* this.comments.push(comment); await this.saveComments()
PushComment(tab, after) ==
    /\ Len(after) <= MaxComments
    /\ comments' = [comments EXCEPT ![tab] = after]
    /\ blogComments' = safeSetLocalStorage(JsonArray(after))
    /\ nonce' = nonce + 1
    /\ UNCHANGED <<now, blogUsers, blogUser, blogArticles, viewLock, users,
                   currentUser, articles, editingArticleId, viewVars>>

CommentRefused(tab, articleId, author, content, res) ==
    /\ last' = CommentResult(tab, articleId, author, content, res)
    /\ UNCHANGED <<now, nonce, storeVars, memVars, viewVars>>

\* author and content are strings, articleId is a value.
submitComment(tab, articleId, author, content) ==
    IF ~Truthy(articleId) \/ author = <<>> \/ content = <<>>
    THEN CommentRefused(tab, articleId, author, content, "Incomplete")
    ELSE IF Len(content) < MinCommentLength
    THEN CommentRefused(tab, articleId, author, content, "TooShort")
    ELSE IF Len(content) > MaxCommentLength
    THEN CommentRefused(tab, articleId, author, content, "TooLong")
    ELSE /\ PushComment(tab, Append(comments[tab],
                                    NewComment(articleId, author, content,
                                               currentUser[tab], now, nonce)))
         /\ last' = CommentResult(tab, articleId, author, content, "ok")

\* The value of the nickname field: fixed for a session, typed by a guest.
AuthorField(session, typed) ==
    IF ~Truthy(session) THEN typed
    ELSE IF Truthy(Get(session.o, "isAdmin")) THEN AdminDisplayName
    ELSE IF Truthy(Get(session.o, "username")) THEN Get(session.o, "username").s
    ELSE typed

FormRefused(tab, res) ==
    /\ last' = [op |-> "commentForm", tab |-> tab, res |-> res]
    /\ UNCHANGED <<now, nonce, storeVars, memVars, viewVars>>

\* The submit handler of the comment form once the fields have been read.
FormSubmit(tab, articleId, author, content) ==
    IF ~Truthy(articleId) THEN FormRefused(tab, "NoArticle")
    ELSE IF author = <<>> THEN FormRefused(tab, "NoAuthor")
    ELSE IF content = <<>> THEN FormRefused(tab, "NoContent")
    ELSE submitComment(tab, articleId, author, content)

commentFormSubmit(tab, articleId, typed, contentValue) ==
    FormSubmit(tab, articleId, Trim(AuthorField(currentUser[tab], typed)),
               Trim(contentValue))

(***************************************************************************)
(* Deleting users.                                                         *)
(***************************************************************************)
\* this.currentUser && selected.includes(this.currentUser.username)
SessionAmong(session, selected) ==
    /\ Truthy(session)
    /\ \E username \in selected : Get(session.o, "username") = Str(username)

\* A slip in deleteUser: the comments are left as they are.
WithoutAuthorKept(cs, username) == cs

\* this.comments.filter(comment => comment.author !== username)
WithoutAuthor(cs, username) ==
    LET Others(comment) == Get(comment, "author") # Str(username)
    IN  SelectSeq(cs, Others)

\* this.users.filter(u => u.username !== username)
WithoutUser(us, username) ==
    LET Others(user) == Get(user, "username") # Str(username)
    IN  SelectSeq(us, Others)

DeleteResult(tab, username, confirmed, res) ==
    [op |-> "deleteUser", tab |-> tab, username |-> username,
     confirmed |-> confirmed, res |-> res]

\* The session is cleared when it is among the deleted users.
ClearSessionOf(tab, selected) ==
    IF SessionAmong(currentUser[tab], selected)
    THEN /\ currentUser' = [currentUser EXCEPT ![tab] = Null]
         /\ blogUser' = safeSetLocalStorage(Null)
    ELSE UNCHANGED <<currentUser, blogUser>>

deleteUser(tab, username, confirmed) ==
    IF username = zcr
    THEN /\ last' = DeleteResult(tab, username, confirmed, "Refused")
         /\ UNCHANGED <<now, nonce, storeVars, memVars, viewVars>>
    ELSE IF ~HasUser(users[tab], username)
    THEN /\ last' = DeleteResult(tab, username, confirmed, "NotFound")
         /\ UNCHANGED <<now, nonce, storeVars, memVars, viewVars>>
    ELSE IF ~confirmed
    THEN /\ last' = DeleteResult(tab, username, confirmed, "Cancelled")
         /\ UNCHANGED <<now, nonce, storeVars, memVars, viewVars>>
    ELSE /\ users' = [users EXCEPT ![tab] = WithoutUser(@, username)]
         /\ comments' = [comments EXCEPT ![tab] = WithoutAuthor(@, username)]
         /\ ClearSessionOf(tab, {username})
         /\ blogUsers' = safeSetLocalStorage(JsonArray(WithoutUser(users[tab], username)))
         /\ blogComments' =
                safeSetLocalStorage(JsonArray(WithoutAuthor(comments[tab], username)))
         /\ last' = DeleteResult(tab, username, confirmed, "Deleted")
         /\ UNCHANGED <<now, nonce, blogArticles, viewLock, articles,
                        editingArticleId, viewVars>>

\* this.users.filter(user => !selectedUsers.includes(user.username))
WithoutUsers(us, selected) ==
    LET Others(user) == \A username \in selected : Get(user, "username") # Str(username)
    IN  SelectSeq(us, Others)

\* this.comments.filter(comment => !selectedUsers.includes(comment.author))
WithoutAuthors(cs, selected) ==
    LET Others(comment) ==
            \A username \in selected : Get(comment, "author") # Str(username)
    IN  SelectSeq(cs, Others)

BatchResult(tab, selected, confirmed, res) ==
    [op |-> "batchDeleteUsers", tab |-> tab, selected |-> selected,
     confirmed |-> confirmed, res |-> res]

\* The names of the rows of the user table.
TableNames(tab) ==
    {users[tab][i].username.s : i \in {j \in DOMAIN users[tab] :
                                          Truthy(Get(users[tab][j], "username"))}}

\* selected is getSelectedUsers(), the names of the checked rows.
batchDeleteUsers(tab, selected, confirmed) ==
    IF selected = {}
    THEN /\ last' = BatchResult(tab, selected, confirmed, "NoneSelected")
         /\ UNCHANGED <<now, nonce, storeVars, memVars, viewVars>>
    ELSE IF ~confirmed
    THEN /\ last' = BatchResult(tab, selected, confirmed, "Cancelled")
         /\ UNCHANGED <<now, nonce, storeVars, memVars, viewVars>>
    ELSE /\ users' = [users EXCEPT ![tab] = WithoutUsers(@, selected)]
         /\ comments' = [comments EXCEPT ![tab] = WithoutAuthors(@, selected)]
         /\ ClearSessionOf(tab, selected)
         /\ blogUsers' = safeSetLocalStorage(JsonArray(WithoutUsers(users[tab], selected)))
         /\ blogComments' =
                safeSetLocalStorage(JsonArray(WithoutAuthors(comments[tab], selected)))
         /\ last' = BatchResult(tab, selected, confirmed, "Deleted")
         /\ UNCHANGED <<now, nonce, blogArticles, viewLock, articles,
                        editingArticleId, viewVars>>

(***************************************************************************)
(* The user table: one tab in which users log in and out and users are     *)
(* deleted, one by one or in batches.                                      *)
(***************************************************************************)
eve == <<101, 118, 101>>
\* 'eve@x.io'
EveEmail == <<101, 118, 101, 64, 120, 46, 105, 111>>
\* 'eve456'
EvePassword == <<101, 118, 101, 52, 53, 54>>
\* 'Al', the nickname of a guest
Al == <<65, 108>>
\* 'Hi'
Hi == <<72, 105>>

\* The record handleRegisterScreen appends for eve.
EveAccount ==
    [id |-> Str(generateId(StartTime, 3)), username |-> Str(eve),
     email |-> Str(EveEmail), password |-> Str(hashPassword(EvePassword)),
     isAdmin |-> Bool(FALSE), createdAt |-> Iso(StartTime), lastLogin |-> Null,
     loginAttempts |-> Num(0), lockedUntil |-> Null]

TableUsers == <<adminAccount(StartTime), BobAccount, EveAccount>>

\* Comments under the sample article: of bob, of a guest, of the admin, of
\* eve and of bob again.
TableComments ==
    <<NewComment(Str(SampleId), bob, Hi, LoginSession(BobAccount, StartTime),
                 StartTime, 4),
      NewComment(Str(SampleId), Al, Hi, Null, StartTime, 5),
      NewComment(Str(SampleId), AdminDisplayName, Hi,
                 LoginSession(adminAccount(StartTime), StartTime), StartTime, 6),
      NewComment(Str(SampleId), eve, Hi, LoginSession(EveAccount, StartTime),
                 StartTime, 7),
      NewComment(Str(SampleId), bob, Hi, LoginSession(BobAccount, StartTime),
                 StartTime, 8)>>

InitUsers ==
    /\ InitCommon
    /\ nonce = 9
    /\ blogArticles = Stored(<<SampleArticle>>)
    /\ blogUsers = Stored(TableUsers)
    /\ blogUser \in {Absent, Stored(Null)}
    /\ blogComments = Stored(TableComments)
    /\ users = [tab \in Tabs |-> IF tab = "A" THEN TableUsers ELSE <<>>]
    /\ currentUser = Unopened(Null)
    /\ articles = [tab \in Tabs |-> IF tab = "A" THEN <<SampleArticle>> ELSE <<>>]
    /\ comments = [tab \in Tabs |-> IF tab = "A" THEN TableComments ELSE <<>>]

\* Who logs in at the user table.
TableForms == {<<zcr, AdminPassword>>, <<bob, BobPassword>>}

\* The users deleteUser is called for: the admin, two users, nobody's name.
DeletedNames == {zcr, bob, eve, admin}

NextUsers ==
    \/ \E form \in TableForms : handleLoginScreen("A", form[1], form[2])
    \/ handleLogout("A")
    \/ \E username \in DeletedNames, confirmed \in BOOLEAN :
          deleteUser("A", username, confirmed)
    \/ \E selected \in SUBSET TableNames("A"), confirmed \in BOOLEAN :
          batchDeleteUsers("A", selected, confirmed)

SpecUsers == InitUsers /\ [][NextUsers]_vars

\* A delete operation has just been handled in the tab.
DeleteStep(tab) ==
    last'.op \in {"deleteUser", "batchDeleteUsers"} /\ last'.tab = tab

\* C5: no delete operation removes the reserved admin account 'zcr':
\* whatever the session, deleteUser and batchDeleteUsers leave the 'zcr'
\* record in the users collection in memory and in storage.
C5_AdminNeverDeleted ==
    [][\A tab \in Tabs :
          (DeleteStep(tab) /\ HasUser(users[tab], zcr) /\ HasUser(StoredUsers, zcr)) =>
              /\ HasUser(users'[tab], zcr)
              /\ HasUser(safeGetLocalStorage(blogUsers', <<>>), zcr)]_vars

\* deleteUser has been called in the tab for an existing user other than the
\* admin, and confirmed.
UserDeleted(tab, username) ==
    /\ last'.op = "deleteUser" /\ last'.tab = tab /\ last'.username = username
    /\ last'.confirmed
    /\ username # zcr /\ HasUser(users[tab], username)

AuthoredBy(cs, username) ==
    \E i \in DOMAIN cs : Get(cs[i], "author") = Str(username)

\* The comments of cs that username has not authored.
OfOthers(cs, username) ==
    LET NotAuthor(comment) == Get(comment, "author") # Str(username)
    IN  SelectSeq(cs, NotAuthor)

\* The session of the tab is that of username.
SessionOf(tab, username) ==
    /\ currentUser[tab] # Null
    /\ Get(currentUser[tab].o, "username") = Str(username)

\* C9: after a confirmed deleteUser of a non-admin user the users collection
\* no longer contains the username, no comment authored by the user remains
\* in memory or in storage, the comments of other authors are unchanged, and
\* a session that was the deleted user's own is cleared in memory and in
\* storage.
C9_DeleteCascade ==
    [][\A tab \in Tabs : \A username \in DeletedNames :
          UserDeleted(tab, username) =>
              /\ ~HasUser(users'[tab], username)
              /\ ~HasUser(safeGetLocalStorage(blogUsers', <<>>), username)
              /\ ~AuthoredBy(comments'[tab], username)
              /\ ~AuthoredBy(safeGetLocalStorage(blogComments', <<>>), username)
              /\ OfOthers(comments'[tab], username) = OfOthers(comments[tab], username)
              /\ safeGetLocalStorage(blogComments', <<>>)
                    = OfOthers(safeGetLocalStorage(blogComments, <<>>), username)
              /\ SessionOf(tab, username) =>
                    /\ currentUser'[tab] = Null
                    /\ blogUser' = Stored(Null)]_vars

\* The admin has deleted bob, whose two comments are gone while the three
\* comments of the others are still there.
C9_Witness ==
    /\ last = DeleteResult("A", bob, TRUE, "Deleted")
    /\ SessionOf("A", zcr)
    /\ currentUser["A"].o.isAdmin = Bool(TRUE)
    /\ Len(comments["A"]) = 3
    /\ HasUser(users["A"], eve)

\* bob has deleted his own account and is logged out.
C9_OwnAccount ==
    /\ last = DeleteResult("A", bob, TRUE, "Deleted")
    /\ currentUser["A"] = Null
    /\ blogUser = Stored(Null)

(***************************************************************************)
(* The admin bootstrap, run again and again on stored users of many kinds. *)
(***************************************************************************)
\* The admin account of an earlier version, named 'admin'.
LegacyAdmin ==
    [id |-> Str(AdminId), username |-> Str(admin),
     password |-> Str(hashPassword(WrongPassword)), isAdmin |-> Bool(TRUE)]

\* The stored admin with another password, without its required fields, and
\* without a password.
AdminOtherPassword ==
    [adminAccount(StartTime) EXCEPT !.password = Str(hashPassword(WrongPassword))]

AdminBare == [username |-> Str(zcr), password |-> Str(AdminDigest)]

AdminNoPassword == [username |-> Str(zcr), isAdmin |-> Bool(TRUE)]

\* The stored users the bootstrap may find.
BootStores ==
    {Absent, Stored(<<>>), Stored(<<BobAccount>>), Stored(<<LegacyAdmin, BobAccount>>),
     Stored(<<AdminOtherPassword, BobAccount>>), Stored(<<BobAccount, AdminBare>>),
     Stored(<<AdminNoPassword, BobAccount>>), Stored(InitialUsers),
     Stored(<<adminAccount(StartTime), AdminOtherPassword>>)}

\* this.users of the tab: a tab that has not loaded yet, or one that loaded
\* the users before the storage was changed from outside.
BootMemories == {<<>>, InitialUsers, <<BobAccount>>}

\* The clock advances this many seconds.
MaxBootSeconds == 2
\* Consecutive runs of the bootstrap are counted up to this.
MaxBootRuns == 3

\* Time passes; the last handler is still the last handler.
TickBoot ==
    /\ now < StartTime + MaxBootSeconds
    /\ now' = now + 1
    /\ UNCHANGED <<nonce, storeVars, memVars, viewVars, last>>

\* The number of runs of the bootstrap in the tab since another handler ran.
BootRuns(tab) ==
    IF last.op = "initAdmin" /\ last.tab = tab THEN last.runs ELSE 0

BootReturns(tab, r) ==
    /\ users' = [users EXCEPT ![tab] = r.mem]
    /\ blogUsers' = r.st
    /\ last' = [op |-> "initAdmin", tab |-> tab, runs |-> BootRuns(tab) + 1]
    /\ UNCHANGED <<now, nonce, blogUser, blogArticles, blogComments, viewLock,
                   currentUser, articles, comments, editingArticleId, viewVars>>

\* A call of initializeAdminAccount() in the tab.
callInitializeAdminAccount(tab) ==
    /\ BootRuns(tab) < MaxBootRuns
    /\ BootReturns(tab, initializeAdminAccount(blogUsers, users[tab], now))

InitBoot ==
    /\ InitCommon
    /\ nonce = 2
    /\ blogArticles = Stored(<<SampleArticle>>)
    /\ blogUsers \in BootStores
    /\ blogUser = Absent
    /\ blogComments = Absent
    /\ users \in {[tab \in Tabs |-> IF tab = "A" THEN mem ELSE <<>>] :
                     mem \in BootMemories}
    /\ currentUser = Unopened(Null)
    /\ articles = [tab \in Tabs |-> IF tab = "A" THEN <<SampleArticle>> ELSE <<>>]
    /\ comments = Unopened(<<>>)

NextBoot ==
    \/ callInitializeAdminAccount("A")
    \/ TickBoot
    \/ \E username \in {bob}, confirmed \in {TRUE} : deleteUser("A", username, confirmed)
    \/ \E selected \in SUBSET TableNames("A"), confirmed \in {TRUE} :
          batchDeleteUsers("A", selected, confirmed)

SpecBoot == InitBoot /\ [][NextBoot]_vars

\* C6: initializeAdminAccount is idempotent: a run that follows a run, with
\* nothing but the passing of time in between, leaves this.users and the
\* stored users as the run before it left them.
C6_Idempotent ==
    [][\A tab \in Tabs :
          (last'.op = "initAdmin" /\ last'.tab = tab /\ last'.runs >= 2) =>
              /\ users'[tab] = users[tab]
              /\ blogUsers' = blogUsers]_vars

\* The bootstrap has run a second time, later than the first, which had
\* created the admin account in place of the legacy one.
C6_Witness ==
    /\ last.op = "initAdmin" /\ last.runs >= 2
    /\ now > StartTime
    /\ HasUser(StoredUsers, zcr) /\ ~HasUser(StoredUsers, admin)
    /\ Get(StoredUsers[FindUser(StoredUsers, zcr)], "createdAt") # Iso(StartTime)

(***************************************************************************)
(* The article editor.  A handler of a tab runs only when no call of       *)
(* showArticle is in flight in the tab.                                    *)
(***************************************************************************)
\* showEditorModal(articleId): articleId is null for a new article.
showEditorModal(tab, articleId) ==
    /\ Idle(tab)
    /\ editingArticleId' = [editingArticleId EXCEPT ![tab] = articleId]
    /\ last' = [op |-> "showEditor", tab |-> tab]
    /\ UNCHANGED <<now, nonce, storeVars, users, currentUser, articles, comments,
                   viewVars>>

closeEditorModal(tab) ==
    /\ Idle(tab)
    /\ editingArticleId' = [editingArticleId EXCEPT ![tab] = Null]
    /\ last' = [op |-> "closeEditor", tab |-> tab]
    /\ UNCHANGED <<now, nonce, storeVars, users, currentUser, articles, comments,
                   viewVars>>

SaveResult(tab, id, res) ==
    [op |-> "saveArticle", tab |-> tab, id |-> id, res |-> res]

\* The article the editor appends.
NewArticle(title, category, content, t, n) ==
    [id |-> Str(generateId(t, n)), title |-> Str(title), category |-> Str(category),
     content |-> Str(content), createdAt |-> Iso(t), updatedAt |-> Iso(t),
     views |-> Num(0)]

\* The article after the editor has changed it.
EditedArticle(article, title, category, content, t) ==
    Put(Put(Put(Put(article, "title", Str(title)), "category", Str(category)),
            "content", Str(content)), "updatedAt", Iso(t))

\* this.safeSetLocalStorage('blogUser', this.currentUser) if there is one.
ProtectSession(tab) ==
    IF Truthy(currentUser[tab])
    THEN blogUser' = safeSetLocalStorage(JsonValue(currentUser[tab]))
    ELSE blogUser' = blogUser

\* The collection is saved, the session written again, the editor closed.
SaveArticles(tab, after) ==
    /\ articles' = [articles EXCEPT ![tab] = after]
    /\ blogArticles' = safeSetLocalStorage(JsonArray(after))
    /\ Notify(tab, safeSetLocalStorage(JsonArray(after)))
    /\ ProtectSession(tab)
    /\ editingArticleId' = [editingArticleId EXCEPT ![tab] = Null]
    /\ UNCHANGED <<now, blogUsers, blogComments, viewLock, users, currentUser,
                   comments, viewed, call, timers, screenVars>>

\* An article collection stops growing at this length.
MaxArticles == 3

SaveEdited(tab, id, title, category, content) ==
    IF HasArticle(articles[tab], id.s)
    THEN /\ SaveArticles(tab, [articles[tab] EXCEPT ![FindArticle(articles[tab], id.s)] =
                                  EditedArticle(@, title, category, content, now)])
         /\ nonce' = nonce
         /\ last' = SaveResult(tab, id, "Updated")
    ELSE /\ SaveArticles(tab, articles[tab])
         /\ nonce' = nonce
         /\ last' = SaveResult(tab, id, "Gone")

SaveCreated(tab, title, category, content) ==
    /\ Len(articles[tab]) < MaxArticles /\ nonce < MaxIds
    /\ SaveArticles(tab, Append(articles[tab],
                                NewArticle(title, category, content, now, nonce)))
    /\ nonce' = nonce + 1
    /\ last' = SaveResult(tab, Str(generateId(now, nonce)), "Created")

SaveForm(tab, title, category, content) ==
    IF title = <<>> \/ category = <<>> \/ content = <<>>
    THEN /\ last' = SaveResult(tab, editingArticleId[tab], "Incomplete")
         /\ UNCHANGED <<now, nonce, storeVars, memVars, viewVars>>
    ELSE IF Truthy(editingArticleId[tab])
    THEN SaveEdited(tab, editingArticleId[tab], title, category, content)
    ELSE SaveCreated(tab, title, category, content)

\* saveArticle() with the fields of the editor holding these values.
saveArticle(tab, titleValue, categoryValue, contentText) ==
    /\ Idle(tab)
    /\ SaveForm(tab, Trim(titleValue), categoryValue, Trim(contentText))

\* this.articles.filter(article => article.id !== articleId)
WithoutArticle(as, articleId) ==
    LET Others(article) == Get(article, "id") # Str(articleId)
    IN  SelectSeq(as, Others)

deleteArticle(tab, articleId, confirmed) ==
    /\ Idle(tab)
    /\ last' = [op |-> "deleteArticle", tab |-> tab, article |-> articleId,
                confirmed |-> confirmed]
    /\ IF confirmed
       THEN /\ articles' = [articles EXCEPT ![tab] = WithoutArticle(@, articleId)]
            /\ blogArticles' =
                   safeSetLocalStorage(JsonArray(WithoutArticle(articles[tab], articleId)))
            /\ Notify(tab, safeSetLocalStorage(
                               JsonArray(WithoutArticle(articles[tab], articleId))))
            /\ UNCHANGED <<now, nonce, blogUsers, blogUser, blogComments, viewLock,
                           users, currentUser, comments, editingArticleId, viewed,
                           call, timers, screenVars>>
       ELSE UNCHANGED <<now, nonce, storeVars, memVars, viewVars>>

\* A slip in the reload: the articles are taken without their views.
LoadedArticlesUncounted(st) ==
    LET Uncounted(article) == Put(article, "views", Num(0))
    IN  [i \in DOMAIN safeGetLocalStorage(st, <<>>) |->
            Uncounted(safeGetLocalStorage(st, <<>>)[i])]

\* this.articles = await this.safeGetLocalStorage('blogArticles', [])
LoadedArticles(st) == safeGetLocalStorage(st, <<>>)

LoadUsers(tab, got) ==
    /\ users' = [users EXCEPT ![tab] = got.ret]
    /\ blogUsers' = got.st

\* The four reads of loadAllDataSafe and its four assignments.
LoadAll(tab) ==
    /\ articles' = [articles EXCEPT ![tab] = LoadedArticles(blogArticles)]
    /\ LoadUsers(tab, safeGetLocalStorageUsers(blogUsers, users[tab]))
    /\ comments' = [comments EXCEPT ![tab] = safeGetLocalStorage(blogComments, <<>>)]
    /\ currentUser' = [currentUser EXCEPT ![tab] = safeGetLocalStorage(blogUser, Null)]
    /\ UNCHANGED <<now, nonce, blogUser, blogArticles, blogComments, viewLock,
                   editingArticleId, viewed, call, timers, screenVars>>

\* `${articles.length}篇文章, ...` throws when a collection that was read is
\* null; the catch makes the result { success: false }.
LoadSucceeds == blogArticles.k # "value" /\ blogComments.k # "value"

\* The page is loaded: no storage event is pending for a page that has just
\* been loaded.
loadAllDataSafe(tab) ==
    /\ Idle(tab)
    /\ inbox' = inbox \ {tab}
    /\ LoadAll(tab)
    /\ last' = [op |-> "load", tab |-> tab, after |-> last.op,
                success |-> LoadSucceeds]

(***************************************************************************)
(* One tab in which articles are written, edited, read, deleted and        *)
(* reloaded.                                                               *)
(***************************************************************************)
\* Stands for the title and the text typed into the editor.
TypedTitle == <<26032, 39064>>
TypedContent == <<20869, 23481>>

\* What the fields of the editor hold: a title with blanks around it or a
\* blank title, a category or none, a text after an empty line.
EditorTitles == {<<32>> \o TypedTitle \o <<32>>, <<32>>}
EditorCategories == {Tech, <<>>}
EditorContents == {<<10>> \o TypedContent}

\* The clock of the editor advances second by second, this many times.
MaxEditSeconds == 1

TickEdit ==
    /\ now < StartTime + MaxEditSeconds
    /\ now' = now + 1
    /\ last' = [op |-> "tick"]
    /\ UNCHANGED <<nonce, storeVars, memVars, viewVars>>

\* The articles the editor is opened for: a new one, two stored ones.
EditedIds == {Null, Str(SampleId), Str(SecondId)}

AdminSession == LoginSession(adminAccount(StartTime), StartTime)

InitArticles ==
    /\ InitCommon
    /\ nonce = 3
    /\ blogArticles = Stored(InitialArticles)
    /\ blogUsers = Stored(InitialUsers)
    /\ blogComments = Absent
    /\ users = [tab \in Tabs |-> IF tab = "A" THEN InitialUsers ELSE <<>>]
    /\ \E session \in {Null, AdminSession} :
          /\ currentUser = [tab \in Tabs |-> IF tab = "A" THEN session ELSE Null]
          /\ blogUser = Stored(JsonValue(session))
    /\ articles = [tab \in Tabs |-> IF tab = "A" THEN InitialArticles ELSE <<>>]
    /\ comments = Unopened(<<>>)

NextArticles ==
    \/ \E articleId \in EditedIds : showEditorModal("A", articleId)
    \/ closeEditorModal("A")
    \/ \E titleValue \in EditorTitles, categoryValue \in EditorCategories,
          contentText \in EditorContents :
          saveArticle("A", titleValue, categoryValue, contentText)
    \/ \E confirmed \in BOOLEAN : deleteArticle("A", SampleId, confirmed)
    \/ loadAllDataSafe("A")
    \/ showArticle("A", SecondId)
    \/ setViewLock("A")
    \/ readStoredArticles("A")
    \/ writeStoredArticles("A")
    \/ syncAllViewDisplays("A")
    \/ releaseViewLock
    \/ TickEdit

SpecArticles == InitArticles /\ [][NextArticles]_vars

\* The article of that id in a collection that has one.
ArticleOf(as, id) == as[FindArticle(as, id.s)]

RoundTripFields ==
    {"id", "title", "category", "content", "views", "createdAt", "updatedAt"}

\* The fields an edit leaves alone.
KeptFields == {"id", "views", "createdAt"}

\* saveArticle has just created or updated an article in the tab.
JustSaved(tab) ==
    last.op = "saveArticle" /\ last.tab = tab /\ last.res \in {"Created", "Updated"}

\* C7: when the article collection is reloaded from storage right after a
\* successful saveArticle, it holds an article of the saved id whose title,
\* category, content, views, createdAt and updatedAt are those of the
\* in-memory article that was saved; and an edit changes nothing but title,
\* category, content and updatedAt of the article's previous stored value.
C7_SaveRoundTrip ==
    [][\A tab \in Tabs :
          /\ (JustSaved(tab) /\ last'.op = "load" /\ last'.tab = tab) =>
                /\ HasArticle(articles'[tab], last.id.s)
                /\ \A f \in RoundTripFields :
                      Get(ArticleOf(articles'[tab], last.id), f)
                          = Get(ArticleOf(articles[tab], last.id), f)
          /\ (last'.op = "saveArticle" /\ last'.tab = tab /\ last'.res = "Updated") =>
                /\ HasArticle(safeGetLocalStorage(blogArticles, <<>>), last'.id.s)
                /\ HasArticle(safeGetLocalStorage(blogArticles', <<>>), last'.id.s)
                /\ \A f \in KeptFields :
                      Get(ArticleOf(safeGetLocalStorage(blogArticles', <<>>), last'.id), f)
                          = Get(ArticleOf(safeGetLocalStorage(blogArticles, <<>>),
                                          last'.id), f)]_vars

\* The second article, read once more and edited later, has been reloaded
\* right after the edit.
C7_Witness ==
    /\ last.op = "load" /\ last.after = "saveArticle"
    /\ HasArticle(articles["A"], SecondId)
    /\ Get(ArticleOf(articles["A"], Str(SecondId)), "views") = Num(4)
    /\ Get(ArticleOf(articles["A"], Str(SecondId)), "title") = Str(TypedTitle)
    /\ Get(ArticleOf(articles["A"], Str(SecondId)), "updatedAt") = Iso(StartTime + 1)

(***************************************************************************)
(* One tab in which guests and users comment on the sample article.        *)
(***************************************************************************)
\* A string of n letters.
Letters(n) == [i \in 1..n |-> 97]

\* The nicknames a guest types: 'A', 'Al', one of 21 letters, a blank.
TypedNicknames == {<<65>>, Al, Letters(MaxAuthorLength + 1), <<32>>}

\* The texts typed into the comment field: nothing, 'H', 'Hi', ' H ', the
\* longest text allowed and one longer.
TypedComments ==
    {<<>>, <<72>>, Hi, <<32, 72, 32>>, Letters(MaxCommentLength),
     Letters(MaxCommentLength + 1)}

\* The arguments of direct calls of submitComment.
CalledArticles == {Str(SampleId), Str(<<>>)}
CalledAuthors == {<<>>, Al, <<65>>}
CalledContents == {<<>>, <<72>>, Hi, <<32, 32>>, Letters(MaxCommentLength + 1)}

InitComments ==
    /\ InitCommon
    /\ nonce = 2
    /\ blogArticles = Stored(<<SampleArticle>>)
    /\ blogUsers = Stored(InitialUsers)
    /\ blogUser \in {Absent, Stored(Null)}
    /\ blogComments \in {Absent, Stored(<<>>)}
    /\ users = [tab \in Tabs |-> IF tab = "A" THEN InitialUsers ELSE <<>>]
    /\ currentUser = Unopened(Null)
    /\ articles = [tab \in Tabs |-> IF tab = "A" THEN <<SampleArticle>> ELSE <<>>]
    /\ comments = Unopened(<<>>)

NextComments ==
    \/ \E form \in TableForms : handleLoginScreen("A", form[1], form[2])
    \/ handleLogout("A")
    \/ \E articleId \in {Str(SampleId), Undef}, typed \in TypedNicknames,
          contentValue \in TypedComments :
          commentFormSubmit("A", articleId, typed, contentValue)
    \/ \E articleId \in CalledArticles, author \in CalledAuthors,
          content \in CalledContents :
          submitComment("A", articleId, author, content)

SpecComments == InitComments /\ [][NextComments]_vars

\* The rule by which a comment is accepted.
Acceptable(articleId, author, content) ==
    /\ Truthy(articleId) /\ author # <<>> /\ content # <<>>
    /\ Len(content) >= MinCommentLength /\ Len(content) <= MaxCommentLength

\* What a stored comment has to satisfy.
WellFormedComment(comment) ==
    /\ Len(comment.content.s) >= MinCommentLength
    /\ Len(comment.content.s) <= MaxCommentLength
    /\ \/ Get(comment, "isAdmin") = Bool(TRUE)
       \/ /\ Len(comment.author.s) >= MinAuthorLength
          /\ Len(comment.author.s) <= MaxAuthorLength

\* C8: submitComment accepts a comment exactly when articleId, author and
\* content are non-empty and the content has 2 to 1000 characters; every
\* comment it stores has a content of 2 to 1000 characters and an author of
\* 2 to 20 characters unless the author is the authenticated admin; a
\* rejected submission leaves the comments unchanged.
C8_CommentRule ==
    [][\A tab \in Tabs :
          (last'.op = "comment" /\ last'.tab = tab) =>
              /\ (last'.res = "ok")
                    <=> Acceptable(last'.articleId, last'.author, last'.content)
              /\ (last'.res = "ok") =>
                    /\ Len(comments'[tab]) = Len(comments[tab]) + 1
                    /\ \A i \in DOMAIN safeGetLocalStorage(blogComments', <<>>) :
                          WellFormedComment(safeGetLocalStorage(blogComments', <<>>)[i])
              /\ (last'.res # "ok") =>
                    /\ comments'[tab] = comments[tab]
                    /\ blogComments' = blogComments]_vars

(***************************************************************************)
(* checkLoginStatus.                                                       *)
(***************************************************************************)
\* The admin is created anew when the users read lack it.
RestoreAdmin(first, t) ==
    IF ~HasUser(first.ret, zcr)
    THEN ReadUsersAfter(initializeAdminAccount(first.st, first.ret, t))
    ELSE first

CheckResult(tab, storedUser, isValidUser, res) ==
    [op |-> "checkLogin", tab |-> tab, candidate |-> storedUser,
     valid |-> isValidUser, res |-> res]

\* this.currentUser = null; await this.safeSetLocalStorage('blogUser', null)
SessionDropped(tab) ==
    /\ currentUser' = [currentUser EXCEPT ![tab] = Null]
    /\ blogUser' = safeSetLocalStorage(Null)

SessionKept(tab, storedUser) ==
    /\ currentUser' = [currentUser EXCEPT ![tab] = storedUser]
    /\ blogUser' = blogUser

\* The expiry test mistaken: a session never expires.
SessionNeverExpired(storedUser, t) == FALSE

\* storedUser.sessionExpiry is set and Date.now() > storedUser.sessionExpiry
SessionExpired(storedUser, t) ==
    /\ Truthy(Get(storedUser.o, "sessionExpiry"))
    /\ t > Get(storedUser.o, "sessionExpiry").n

CheckSession(tab, got, storedUser, isValidUser) ==
    /\ users' = [users EXCEPT ![tab] = got.ret]
    /\ blogUsers' = got.st
    /\ IF ~isValidUser
       THEN /\ SessionDropped(tab)
            /\ last' = CheckResult(tab, storedUser, isValidUser, "Invalid")
       ELSE IF SessionExpired(storedUser, now)
       THEN /\ SessionDropped(tab)
            /\ last' = CheckResult(tab, storedUser, isValidUser, "Expired")
       ELSE IF ~HasUser(got.ret, Get(storedUser.o, "username").s)
       THEN /\ SessionDropped(tab)
            /\ last' = CheckResult(tab, storedUser, isValidUser, "UserGone")
       ELSE /\ SessionKept(tab, storedUser)
            /\ last' = CheckResult(tab, storedUser, isValidUser, "LoggedIn")
    /\ UNCHANGED <<now, nonce, blogArticles, blogComments, viewLock, articles,
                   comments, editingArticleId, viewVars>>

CheckStored(tab, got, storedUser) ==
    CheckSession(tab, got, storedUser, validateUserObject(storedUser, now))

checkLoginStatus(tab) ==
    /\ Idle(tab)
    /\ CheckStored(tab, RestoreAdmin(safeGetLocalStorageUsers(blogUsers, users[tab]), now),
                   safeGetLocalStorage(blogUser, Null))

(***************************************************************************)
(* One tab that checks the persisted session, whatever has been stored     *)
(* under the key, as time passes.                                          *)
(***************************************************************************)
ThirtyOneDays == ThirtyDays + SessionLifetime

\* 'mallory', the name of no user
mallory == <<109, 97, 108, 108, 111, 114, 121>>

CandidateNames ==
    {Undef, Null, Num(7), Str(<<>>), Str(<<32, 32>>), Str(bob), Str(mallory)}

CandidateLoginTimes ==
    {Undef, Null, Num(0), Iso(StartTime), Num(StartTime),
     Num(StartTime - ThirtyDays), Num(StartTime - ThirtyDays - 1),
     Num(StartTime - ThirtyOneDays)}

CandidateFlags == {Undef, Bool(FALSE)}

CandidateExpiries == {Undef, Num(StartTime + 1)}

\* What may be stored under blogUser: objects with these fields (a field
\* that is undefined is not stored), null, a number, a string.
Candidates ==
    {Obj(JsonObject([username |-> username, loginTime |-> loginTime,
                     isAdmin |-> isAdmin, sessionExpiry |-> sessionExpiry])) :
         username \in CandidateNames, loginTime \in CandidateLoginTimes,
         isAdmin \in CandidateFlags, sessionExpiry \in CandidateExpiries}
    \cup {Null, Num(7), Str(bob)}

\* The clock of the session check advances by seconds and by days.
MaxDays == 1

SessionInstants ==
    {StartTime + s + SessionLifetime * d : s \in 0..MaxSeconds, d \in 0..MaxDays}

TickSession ==
    /\ now' \in {t \in SessionInstants : t > now}
    /\ last' = [op |-> "tick"]
    /\ UNCHANGED <<nonce, storeVars, memVars, viewVars>>

InitSession ==
    /\ InitCommon
    /\ nonce = 2
    /\ blogArticles = Stored(<<SampleArticle>>)
    /\ blogUsers = Stored(InitialUsers)
    /\ blogUser \in {Absent} \cup {Stored(candidate) : candidate \in Candidates}
    /\ blogComments = Absent
    /\ users = [tab \in Tabs |-> IF tab = "A" THEN InitialUsers ELSE <<>>]
    /\ currentUser = Unopened(Null)
    /\ articles = [tab \in Tabs |-> IF tab = "A" THEN <<SampleArticle>> ELSE <<>>]
    /\ comments = Unopened(<<>>)

NextSession ==
    \/ checkLoginStatus("A")
    \/ TickSession

SpecSession == InitSession /\ [][NextSession]_vars

\* The candidate has the field and its value is of the type.
HasTyped(candidate, field, type) ==
    field \in DOMAIN candidate.o /\ candidate.o[field].t = type

\* The conditions on a candidate but the one on its username.
SessionConditions(candidate) ==
    /\ candidate.t = "obj"
    /\ HasTyped(candidate, "username", "str")
    /\ HasTyped(candidate, "loginTime", "num")
    /\ now - candidate.o.loginTime.n <= ThirtyDays
    /\ "isAdmin" \in DOMAIN candidate.o

\* validateUserObject has just been applied to the stored session.
Validated == last.op = "checkLogin"

\* C10 as stated: validateUserObject returns true if and only if the
\* candidate is a non-null object with a non-empty string username, a
\* numeric loginTime with now - loginTime <= 30 days, and the fields
\* username, loginTime and isAdmin.
C10_AsStated ==
    Validated =>
        (last.valid <=>
            /\ SessionConditions(last.candidate)
            /\ last.candidate.o.username.s # <<>>)

\* C10 amended: validateUserObject returns true if and only if the candidate
\* is a non-null object with a string username that is not blank (not empty
\* once trimmed), a numeric loginTime with now - loginTime <= 30 days, and
\* the fields username, loginTime and isAdmin; a session with loginTime =
\* now - 31 days is rejected.
C10_Amended ==
    Validated =>
        (last.valid <=>
            /\ SessionConditions(last.candidate)
            /\ Trim(last.candidate.o.username.s) # <<>>)

\* A session of bob that is 31 days old has been rejected.
C10_Witness ==
    /\ Validated /\ ~last.valid
    /\ last.candidate.t = "obj"
    /\ Get(last.candidate.o, "username") = Str(bob)
    /\ Get(last.candidate.o, "loginTime") = Num(now - ThirtyOneDays)
    /\ Get(last.candidate.o, "isAdmin") = Bool(FALSE)

\* A session of bob that is exactly 30 days old has been accepted.
C10_Boundary ==
    /\ Validated /\ last.valid
    /\ Get(last.candidate.o, "loginTime") = Num(now - ThirtyDays)

(***************************************************************************)
(* handleRegisterScreen, with the form holding these four values.  A       *)
(* password field holds no line break.                                     *)
(***************************************************************************)
MinUsernameLength == 3
MaxUsernameLength == 20

\* /^[a-zA-Z0-9_]+$/.test(username)
IsWordChar(c) == c \in (48..57) \cup (65..90) \cup (97..122) \cup {95}

IsWord(s) == s # <<>> /\ \A i \in DOMAIN s : IsWordChar(s[i])

\* /^[^\s@]+@[^\s@]+\.[^\s@]+$/.test(email): no blank, one @ that is not the
\* first character, and after it a dot with a character on either side.
validateEmail(email) ==
    /\ \A i \in DOMAIN email : ~IsSpace(email[i])
    /\ Cardinality({i \in DOMAIN email : email[i] = 64}) = 1
    /\ \E at \in DOMAIN email :
          /\ email[at] = 64 /\ at > 1
          /\ \E dot \in (at + 2)..(Len(email) - 1) : email[dot] = 46

\* /^(?=.*[a-zA-Z])(?=.*\d)/.test(password)
HasLetterAndDigit(password) ==
    /\ \E i \in DOMAIN password : password[i] \in (65..90) \cup (97..122)
    /\ \E i \in DOMAIN password : password[i] \in 48..57

\* users.some(user => user.email === email)
HasEmail(us, email) == \E i \in DOMAIN us : Get(us[i], "email") = Str(email)

\* The record handleRegisterScreen appends.
newUser(username, email, password, t, n) ==
    [id |-> Str(generateId(t, n)), username |-> Str(username), email |-> Str(email),
     password |-> Str(hashPassword(password)), isAdmin |-> Bool(FALSE),
     createdAt |-> Iso(t), lastLogin |-> Null, loginAttempts |-> Num(0),
     lockedUntil |-> Null]

\* The session of a user who has just registered.
RegisterSession(user, t) ==
    Obj([id |-> user.id, username |-> user.username, isAdmin |-> user.isAdmin,
         email |-> user.email, loginTime |-> Iso(t)])

RegisterResult(tab, username, res) ==
    [op |-> "register", tab |-> tab, username |-> username, res |-> res]

RegisterRefused(tab, username, res) ==
    /\ last' = RegisterResult(tab, username, res)
    /\ UNCHANGED <<now, nonce, storeVars, memVars, viewVars>>

\* The registered users of a tab stop growing at this length.
MaxUsers == 3

RegisterUser(tab, user) ==
    /\ Len(users[tab]) < MaxUsers /\ nonce < MaxIds
    /\ users' = [users EXCEPT ![tab] = Append(@, user)]
    /\ blogUsers' = safeSetLocalStorage(JsonArray(Append(users[tab], user)))
    /\ currentUser' = [currentUser EXCEPT ![tab] = RegisterSession(user, now)]
    /\ blogUser' = safeSetLocalStorage(JsonValue(RegisterSession(user, now)))
    /\ nonce' = nonce + 1
    /\ last' = RegisterResult(tab, user.username.s, "ok")
    /\ UNCHANGED <<now, blogArticles, blogComments, viewLock, articles, comments,
                   editingArticleId, viewVars>>

RegisterSubmit(tab, username, email, password, confirmPassword) ==
    IF username = <<>> \/ email = <<>> \/ password = <<>> \/ confirmPassword = <<>>
    THEN RegisterRefused(tab, username, "Incomplete")
    ELSE IF Len(username) < MinUsernameLength \/ Len(username) > MaxUsernameLength
    THEN RegisterRefused(tab, username, "BadUsernameLength")
    ELSE IF ~IsWord(username)
    THEN RegisterRefused(tab, username, "BadUsername")
    ELSE IF ~validateEmail(email)
    THEN RegisterRefused(tab, username, "BadEmail")
    ELSE IF Len(password) < MinPasswordLength
    THEN RegisterRefused(tab, username, "ShortPassword")
    ELSE IF ~HasLetterAndDigit(password)
    THEN RegisterRefused(tab, username, "WeakPassword")
    ELSE IF password # confirmPassword
    THEN RegisterRefused(tab, username, "Mismatch")
    ELSE IF HasUser(users[tab], username)
    THEN RegisterRefused(tab, username, "UsernameTaken")
    ELSE IF HasEmail(users[tab], email)
    THEN RegisterRefused(tab, username, "EmailTaken")
    ELSE RegisterUser(tab, newUser(username, email, password, now, nonce))

handleRegisterScreen(tab, usernameInput, emailInput, password, confirmPassword) ==
    /\ Idle(tab)
    /\ RegisterSubmit(tab, Trim(usernameInput), Trim(emailInput), password,
                      confirmPassword)

(***************************************************************************)
(* The other operations of the user table.                                 *)
(***************************************************************************)
UserResult(tab, op, target, res) ==
    [op |-> op, tab |-> tab, target |-> target, res |-> res]

UserRefused(tab, op, target, res) ==
    /\ last' = UserResult(tab, op, target, res)
    /\ UNCHANGED <<now, nonce, storeVars, memVars, viewVars>>

\* this.users has been changed in place and is saved.
UsersSaved(tab, after) ==
    /\ users' = [users EXCEPT ![tab] = after]
    /\ blogUsers' = safeSetLocalStorage(JsonArray(after))
    /\ UNCHANGED <<now, nonce, blogUser, blogArticles, blogComments, viewLock,
                   currentUser, articles, comments, editingArticleId, viewVars>>

\* user.isLocked = !user.isLocked
ToggleLocked(user) == Put(user, "isLocked", Bool(~Truthy(Get(user, "isLocked"))))

lockUser(tab, username) ==
    IF username = zcr THEN UserRefused(tab, "lockUser", username, "Refused")
    ELSE IF ~HasUser(users[tab], username)
    THEN UserRefused(tab, "lockUser", username, "NotFound")
    ELSE /\ UsersSaved(tab, [users[tab] EXCEPT ![FindUser(users[tab], username)] =
                                ToggleLocked(@)])
         /\ last' = UserResult(tab, "lockUser", username, "ok")

\* For every selected name, the first user of that name gets isLocked = flag.
WithLocked(us, selected, flag) ==
    [i \in DOMAIN us |->
        IF \E username \in selected : FindUser(us, username) = i
        THEN Put(us[i], "isLocked", Bool(flag))
        ELSE us[i]]

\* batchLockUsers (flag TRUE) and batchUnlockUsers (flag FALSE).
BatchSetLocked(tab, op, selected, confirmed, flag) ==
    IF selected = {} THEN UserRefused(tab, op, selected, "NoneSelected")
    ELSE IF ~confirmed THEN UserRefused(tab, op, selected, "Cancelled")
    ELSE /\ UsersSaved(tab, WithLocked(users[tab], selected, flag))
         /\ last' = UserResult(tab, op, selected, "ok")

batchLockUsers(tab, selected, confirmed) ==
    BatchSetLocked(tab, "batchLockUsers", selected, confirmed, TRUE)

batchUnlockUsers(tab, selected, confirmed) ==
    BatchSetLocked(tab, "batchUnlockUsers", selected, confirmed, FALSE)

\* user.email = newEmail || user.email
EditedUser(user, newEmail) ==
    IF Truthy(newEmail) THEN Put(user, "email", newEmail)
    ELSE Put(user, "email", Get(user, "email"))

\* newEmail is what prompt returns: null when it is cancelled, else a string.
editUser(tab, username, newEmail) ==
    IF ~HasUser(users[tab], username)
    THEN UserRefused(tab, "editUser", username, "NotFound")
    ELSE IF newEmail = Null
    THEN UserRefused(tab, "editUser", username, "Cancelled")
    ELSE IF Truthy(newEmail) /\ ~validateEmail(newEmail.s)
    THEN UserRefused(tab, "editUser", username, "BadEmail")
    ELSE /\ UsersSaved(tab, [users[tab] EXCEPT ![FindUser(users[tab], username)] =
                                EditedUser(@, newEmail)])
         /\ last' = UserResult(tab, "editUser", username, "ok")

(***************************************************************************)
(* Moderating comments.                                                    *)
(***************************************************************************)
\* !this.currentUser || !this.currentUser.isAdmin
NotAdmin(session) == ~Truthy(session) \/ ~Truthy(Get(session.o, "isAdmin"))

HasComment(cs, commentId) == \E i \in DOMAIN cs : Get(cs[i], "id") = Str(commentId)

\* comments.findIndex(c => c.id === commentId), 0 when there is none.
FindComment(cs, commentId) ==
    IF HasComment(cs, commentId)
    THEN CHOOSE i \in DOMAIN cs :
            /\ Get(cs[i], "id") = Str(commentId)
            /\ \A j \in 1..(i - 1) : Get(cs[j], "id") # Str(commentId)
    ELSE 0

\* this.comments.splice(commentIndex, 1)
WithoutIndex(cs, i) == SubSeq(cs, 1, i - 1) \o SubSeq(cs, i + 1, Len(cs))

\* this.comments has been changed in place; saveComments()
CommentsSaved(tab, after) ==
    /\ comments' = [comments EXCEPT ![tab] = after]
    /\ blogComments' = safeSetLocalStorage(JsonArray(after))
    /\ UNCHANGED <<now, nonce, blogUsers, blogUser, blogArticles, viewLock, users,
                   currentUser, articles, editingArticleId, viewVars>>

deleteComment(tab, commentId, confirmed) ==
    IF NotAdmin(currentUser[tab])
    THEN UserRefused(tab, "deleteComment", commentId, "PermissionDenied")
    ELSE IF ~confirmed
    THEN UserRefused(tab, "deleteComment", commentId, "Cancelled")
    ELSE IF ~HasComment(comments[tab], commentId)
    THEN UserRefused(tab, "deleteComment", commentId, "NotFound")
    ELSE /\ CommentsSaved(tab, WithoutIndex(comments[tab],
                                            FindComment(comments[tab], commentId)))
         /\ last' = UserResult(tab, "deleteComment", commentId, "ok")

\* comment.isPinned = !comment.isPinned
TogglePinned(comment) ==
    Put(comment, "isPinned", Bool(~Truthy(Get(comment, "isPinned"))))

pinComment(tab, commentId) ==
    IF NotAdmin(currentUser[tab])
    THEN UserRefused(tab, "pinComment", commentId, "PermissionDenied")
    ELSE IF ~HasComment(comments[tab], commentId)
    THEN UserRefused(tab, "pinComment", commentId, "NotFound")
    ELSE /\ CommentsSaved(tab, [comments[tab] EXCEPT
                                   ![FindComment(comments[tab], commentId)] =
                                       TogglePinned(@)])
         /\ last' = UserResult(tab, "pinComment", commentId, "ok")

(***************************************************************************)
(* The accounts: one tab in which visitors register, users log in and out, *)
(* the user table and the comments are moderated, the admin bootstrap runs *)
(* and the data are reloaded.                                              *)
(***************************************************************************)
\* What is typed into the registration form: eve registers, somebody asks
\* for the admin's name, somebody mistypes the confirmation.
RegisterForms ==
    {<<<<32>> \o eve, EveEmail, EvePassword, EvePassword>>,
     <<zcr, EveEmail, EvePassword, EvePassword>>,
     <<eve, EveEmail, EvePassword, BobPassword>>}

\* The users the buttons of a row are pressed for.
RowNames == {zcr, bob}

\* What prompt returns to editUser: cancelled, left empty, a new address,
\* something that is no address.
PromptedEmails == {Null, Str(<<>>), Str(EveEmail), Str(eve)}

\* Comments under the sample article: of bob and of a guest.
AccountComments ==
    <<NewComment(Str(SampleId), bob, Hi, LoginSession(BobAccount, StartTime),
                 StartTime, 4),
      NewComment(Str(SampleId), Al, Hi, Null, StartTime, 5)>>

InitAccounts ==
    /\ InitCommon
    /\ nonce = 6
    /\ blogArticles = Stored(<<SampleArticle>>)
    /\ blogUsers = Stored(InitialUsers)
    /\ blogUser \in {Absent, Stored(Null)}
    /\ blogComments = Stored(AccountComments)
    /\ users = [tab \in Tabs |-> IF tab = "A" THEN InitialUsers ELSE <<>>]
    /\ currentUser = Unopened(Null)
    /\ articles = [tab \in Tabs |-> IF tab = "A" THEN <<SampleArticle>> ELSE <<>>]
    /\ comments = [tab \in Tabs |-> IF tab = "A" THEN AccountComments ELSE <<>>]

NextAccounts ==
    \/ \E form \in RegisterForms :
          handleRegisterScreen("A", form[1], form[2], form[3], form[4])
    \/ \E form \in TableForms : handleLoginScreen("A", form[1], form[2])
    \/ handleLogout("A")
    \/ \E username \in RowNames, confirmed \in BOOLEAN :
          deleteUser("A", username, confirmed)
    \/ \E selected \in SUBSET TableNames("A"), confirmed \in BOOLEAN :
          batchDeleteUsers("A", selected, confirmed)
    \/ \E username \in RowNames : lockUser("A", username)
    \/ \E username \in RowNames, newEmail \in PromptedEmails :
          editUser("A", username, newEmail)
    \/ callInitializeAdminAccount("A")
    \/ loadAllDataSafe("A")

SpecAccounts == InitAccounts /\ [][NextAccounts]_vars

\* The records of the admin's name in a users collection.
AdminRecords(us) == {i \in DOMAIN us : Get(us[i], "username") = Str(zcr)}

OneAdmin(us) ==
    /\ Cardinality(AdminRecords(us)) = 1
    /\ \A i \in AdminRecords(us) : Get(us[i], "isAdmin") = Bool(TRUE)

\* C11: in every reachable state the users collection, in the memory of the
\* tab and in storage, contains exactly one record with username 'zcr', and
\* that record has isAdmin = true.
C11_OneAdmin == OneAdmin(users["A"]) /\ OneAdmin(StoredUsers)

(***************************************************************************)
(* Locking: one tab in which users are locked and unlocked from the user   *)
(* table and passwords are mistyped at the login form.                     *)
(***************************************************************************)
\* Who logs in: the admin, and somebody who mistypes the admin's password.
LockForms == {<<zcr, AdminPassword>>, <<zcr, WrongPassword>>}

NextLocks ==
    \/ \E form \in LockForms : handleLoginScreen("A", form[1], form[2])
    \/ handleLogout("A")
    \/ \E username \in RowNames : lockUser("A", username)
    \/ \E selected \in SUBSET TableNames("A"), confirmed \in BOOLEAN :
          batchLockUsers("A", selected, confirmed)
    \/ \E selected \in SUBSET TableNames("A"), confirmed \in BOOLEAN :
          batchUnlockUsers("A", selected, confirmed)
    \/ TickLogin

SpecLocks == InitAccounts /\ [][NextLocks]_vars

\* The record is locked: flagged as locked, or locked out until later.
Locked(user) ==
    Get(user, "isLocked") = Bool(TRUE) \/ LockedUntilInFuture(user)

\* C12: the reserved admin account 'zcr' is never locked: no sequence of
\* lockUser, batchLockUsers and failed logins leaves a 'zcr' record, in the
\* memory of the tab or in storage, with isLocked = true or with a lockedUntil
\* in the future.
C12_AdminNeverLocked ==
    /\ \A i \in AdminRecords(users["A"]) : ~Locked(users["A"][i])
    /\ \A i \in AdminRecords(StoredUsers) : ~Locked(StoredUsers[i])

\* lockUser alone never locks the admin.
C12_LockUserRefuses ==
    [][(last'.op = "lockUser" /\ last'.target = zcr) =>
          /\ last'.res = "Refused"
          /\ UNCHANGED <<storeVars, memVars>>]_vars

(***************************************************************************)
(* Moderation: one tab in which the admin or bob is logged in, or nobody,  *)
(* and the comments and the users are moderated.                           *)
(***************************************************************************)
\* The comments that are moderated: the first one, and one that is not there.
ModeratedIds == {CommentId(StartTime, 4), CommentId(StartTime, 99)}

NextModeration ==
    \/ \E form \in TableForms : handleLoginScreen("A", form[1], form[2])
    \/ handleLogout("A")
    \/ \E commentId \in ModeratedIds, confirmed \in BOOLEAN :
          deleteComment("A", commentId, confirmed)
    \/ \E commentId \in ModeratedIds : pinComment("A", commentId)
    \/ \E username \in RowNames : lockUser("A", username)
    \/ \E username \in RowNames, confirmed \in BOOLEAN :
          deleteUser("A", username, confirmed)
    \/ \E username \in RowNames, newEmail \in PromptedEmails :
          editUser("A", username, newEmail)
    \/ \E selected \in SUBSET TableNames("A"), confirmed \in BOOLEAN :
          batchLockUsers("A", selected, confirmed)
    \/ \E selected \in SUBSET TableNames("A"), confirmed \in BOOLEAN :
          batchUnlockUsers("A", selected, confirmed)
    \/ \E selected \in SUBSET TableNames("A"), confirmed \in BOOLEAN :
          batchDeleteUsers("A", selected, confirmed)

SpecModeration == InitAccounts /\ [][NextModeration]_vars

ModerationOps ==
    {"pinComment", "deleteComment", "lockUser", "deleteUser", "editUser",
     "batchLockUsers", "batchUnlockUsers", "batchDeleteUsers"}

\* The session of the tab is that of an admin.
IsAdminSession(tab) ==
    /\ currentUser[tab] # Null
    /\ Get(currentUser[tab].o, "isAdmin") = Bool(TRUE)

\* The operation that has just been handled changed something.
Moderated == last'.res \in {"ok", "Deleted"}

\* C13: a moderation operation invoked while the session is absent or is not
\* an admin's fails and leaves the users, the comments and the session
\* unchanged in memory and in storage.
C13_ModerationGated ==
    [][\A tab \in Tabs :
          (last'.op \in ModerationOps /\ last'.tab = tab /\ ~IsAdminSession(tab)) =>
              /\ ~Moderated
              /\ users'[tab] = users[tab] /\ blogUsers' = blogUsers
              /\ comments'[tab] = comments[tab] /\ blogComments' = blogComments
              /\ currentUser'[tab] = currentUser[tab] /\ blogUser' = blogUser]_vars

\* The two operations on comments are gated.
C13_CommentsGated ==
    [][\A tab \in Tabs :
          (last'.op \in {"pinComment", "deleteComment"} /\ last'.tab = tab
              /\ ~IsAdminSession(tab)) =>
              /\ last'.res = "PermissionDenied"
              /\ UNCHANGED <<storeVars, memVars>>]_vars

\* C14: in every reachable state of a tab, an in-memory session that is not
\* null satisfies validateUserObject; so it is after login, after
\* registration and after a reload of the data.
C14_SessionValid ==
    \A tab \in Tabs :
        currentUser[tab] # Null => validateUserObject(currentUser[tab], now)

(***************************************************************************)
(* Handlers that run beside the user's: the storage notification, the      *)
(* sample data and the periodic check of the view counters.                *)
(***************************************************************************)
\* The listener of 'storage' events for the key blogArticles:
\* loadAllDataSafe().then(() => syncAllViewDisplays()).  The notification of
\* a write reaches another tab some time after the write, and does not reach
\* a tab that had not yet registered the listener, which initializeApp does
\* as its last step, after the data have been loaded.
storageEvent(tab) ==
    /\ Idle(tab)
    /\ tab \in inbox
    /\ inbox' = inbox \ {tab}
    /\ LoadAll(tab)
    /\ last' = [op |-> "storage", tab |-> tab]

\* The article initializeSampleData appends.
sampleArticle(t, n) ==
    [id |-> Str(generateId(t, n)), title |-> Str(SampleTitle),
     category |-> Str(Thoughts), content |-> Str(SampleContent),
     createdAt |-> Iso(t), views |-> Num(0)]

initializeSampleData(tab) ==
    /\ Idle(tab)
    /\ last' = [op |-> "sampleData", tab |-> tab, made |-> Len(articles[tab]) = 0]
    /\ IF Len(articles[tab]) = 0
       THEN /\ nonce < MaxIds
            /\ articles' = [articles EXCEPT ![tab] = <<sampleArticle(now, nonce)>>]
            /\ blogArticles' = safeSetLocalStorage(JsonArray(<<sampleArticle(now, nonce)>>))
            /\ Notify(tab, safeSetLocalStorage(JsonArray(<<sampleArticle(now, nonce)>>)))
            /\ ProtectSession(tab)
            /\ nonce' = nonce + 1
            /\ UNCHANGED <<now, blogUsers, blogComments, viewLock, users, currentUser,
                           comments, editingArticleId, viewed, call, timers, screenVars>>
       ELSE UNCHANGED <<now, nonce, storeVars, memVars, viewVars>>

\* The repair mistaken: every counter is set to 0.
WithViewsReset(article) == Put(article, "views", Num(0))

\* if (article.views === undefined || article.views === null) article.views = 0
WithViews(article) ==
    IF Get(article, "views").t \in {"undef", "null"}
    THEN Put(article, "views", Num(0))
    ELSE article

validateViewStats(tab) ==
    /\ Idle(tab)
    /\ articles' = [articles EXCEPT ![tab] = [i \in DOMAIN @ |-> WithViews(@[i])]]
    /\ last' = [op |-> "viewStats", tab |-> tab]
    /\ UNCHANGED <<now, nonce, storeVars, users, currentUser, comments,
                   editingArticleId, viewVars>>

(***************************************************************************)
(* Two tabs of the admin on the same articles: articles are read in both,  *)
(* written and edited in B, deleted in A, and the session ends and begins  *)
(* in A.                                                                   *)
(***************************************************************************)
\* The articles the tabs found when they were opened: those of a blog in
\* use, or none on an origin that has never been used.
SharedArticles == {InitialArticles, <<>>}

InitShared ==
    /\ InitCommon
    /\ nonce = 5
    /\ blogUsers = Stored(InitialUsers)
    /\ blogComments = Absent
    /\ users = Unopened(InitialUsers)
    /\ currentUser = Unopened(AdminSession)
    /\ blogUser = Stored(JsonValue(AdminSession))
    /\ \E found \in SharedArticles :
          /\ articles = Unopened(found)
          /\ blogArticles = IF found = <<>> THEN Absent ELSE Stored(found)
    /\ comments = Unopened(<<>>)

NextShared ==
    \/ showArticle("A", SampleId)
    \/ setViewLock("A")
    \/ readStoredArticles("A")
    \/ writeStoredArticles("A")
    \/ syncAllViewDisplays("A")
    \/ \E tab \in Tabs : storageEvent(tab)
    \/ \E articleId \in {Null, Str(SampleId)} : showEditorModal("B", articleId)
    \/ saveArticle("B", TypedTitle, Tech, TypedContent)
    \/ deleteArticle("A", SecondId, TRUE)
    \/ \E tab \in Tabs : initializeSampleData(tab)
    \/ validateViewStats("A")
    \/ handleLogout("A")

SpecShared == InitShared /\ [][NextShared]_vars

\* The views of the article of that id in a stored collection.
ViewsIn(st, articleId) ==
    Get(ArticleOf(safeGetLocalStorage(st, <<>>), Str(articleId)), "views")

\* The ids of the articles of a stored collection.
IdsIn(st) ==
    {safeGetLocalStorage(st, <<>>)[i].id.s : i \in DOMAIN safeGetLocalStorage(st, <<>>)}

\* C15: for every article that stays in the stored collection, its views are
\* a number at all times and no step, of whichever tab, makes them less.
C15_ViewsMonotone ==
    /\ [](\A articleId \in IdsIn(blogArticles) :
            ViewsIn(blogArticles, articleId).t = "num")
    /\ [][\A articleId \in IdsIn(blogArticles) \cap IdsIn(blogArticles') :
            ViewsIn(blogArticles', articleId).n >= ViewsIn(blogArticles, articleId).n]_vars

\* C15, the part that holds: the views of a stored article are never
\* undefined.
C15_ViewsDefined ==
    \A articleId \in IdsIn(blogArticles) : ViewsIn(blogArticles, articleId).t = "num"

\* A handler of the articles has just run: the editor's save, a deletion, a
\* step of a view, the sample data.
ArticleStep ==
    last'.op \in {"saveArticle", "deleteArticle", "view", "step", "sync",
                  "sampleData", "viewStats"}

\* C16: the operations on articles (saveArticle, deleteArticle, the view
\* counter, initializeSampleData) never change the stored session, also when
\* another tab has logged out or in since the tab loaded its session.
C16_SessionFrame == [][ArticleStep => blogUser' = blogUser]_vars

\* handleLogout has just run in the tab.
LoggedOut(tab) == last.op = "logout" /\ last.tab = tab

GetFaults == {"none", "unavailable", "throws", "quota"}

\* How it fails during a write: not at all, localStorage is undefined,
\* setItem throws (the quota is exceeded), JSON.stringify throws.
SetFaults == {"none", "unavailable", "quota", "unserializable"}

\* safeGetLocalStorage(key, defaultValue) by a tab whose this.users is mem:
\* a repair whose setItem throws ends in a catch that resolves the default.
GetWithFault(key, st, mem, defaultValue, fault) ==
    IF fault \in {"unavailable", "throws"} THEN [ret |-> defaultValue, st |-> st]
    ELSE IF key = "blogUsers"
    THEN LET r == safeGetLocalStorageUsers(st, mem)
         IN  IF fault = "quota" /\ r.st # st
             THEN [ret |-> defaultValue, st |-> st]
             ELSE r
    ELSE [ret |-> safeGetLocalStorage(st, defaultValue), st |-> st]

\* The key after setItem(key, JSON.stringify(value)): JSON.stringify makes
\* undefined of undefined, which is stored as the text 'undefined'.
SetItem(key, value) ==
    IF key = "blogUsers" THEN Stored(JsonArray(value))
    ELSE IF value = Undef THEN Unparsable
    ELSE Stored(JsonValue(value))

\* safeSetLocalStorage(key, value): ok is what the promise resolves to.
SetWithFault(key, st, value, fault) ==
    IF fault # "none" THEN [ok |-> FALSE, st |-> st]
    ELSE [ok |-> TRUE, st |-> SetItem(key, value)]

\* The variable that holds the key.
KeyOf(key) == IF key = "blogUsers" THEN blogUsers ELSE blogUser

StoreKeys(key, st) ==
    /\ blogUsers' = IF key = "blogUsers" THEN st ELSE blogUsers
    /\ blogUser' = IF key = "blogUser" THEN st ELSE blogUser
    /\ UNCHANGED <<now, nonce, blogArticles, blogComments, viewLock, memVars, viewVars>>

GetReturns(tab, key, defaultValue, fault, r) ==
    /\ StoreKeys(key, r.st)
    /\ last' = [op |-> "get", tab |-> tab, key |-> key, default |-> defaultValue,
                fault |-> fault, ret |-> r.ret, wrote |-> r.st # KeyOf(key)]

callSafeGetLocalStorage(tab, key, defaultValue, fault) ==
    GetReturns(tab, key, defaultValue, fault,
               GetWithFault(key, KeyOf(key), users[tab], defaultValue, fault))

SetReturns(tab, key, value, fault, r) ==
    /\ StoreKeys(key, r.st)
    /\ last' = [op |-> "set", tab |-> tab, key |-> key, value |-> value,
                fault |-> fault, ok |-> r.ok]

callSafeSetLocalStorage(tab, key, value, fault) ==
    SetReturns(tab, key, value, fault, SetWithFault(key, KeyOf(key), value, fault))

\* A record with a name and nothing else, and one with a password only.
NameOnly == [username |-> Str(eve)]
PasswordOnly == [password |-> Str(AdminDigest), email |-> Str(EveEmail)]

\* What the users key may hold.
UserStores ==
    BootStores \cup
    {Unparsable, StoredValue(Null), StoredValue(Num(7)),
     Stored(<<adminAccount(StartTime), NameOnly, BobAccount>>),
     Stored(<<PasswordOnly, BobAccount>>), Stored(<<NameOnly>>)}

\* What the session key may hold.
SessionStores == {Absent, Unparsable, Stored(Null), Stored(JsonValue(AdminSession))}

\* The values written: users under the users key, a session under the other.
WrittenUsers == {<<>>, <<BobAccount>>, InitialUsers}
WrittenSessions == {Null, Undef, AdminSession}

InitStore ==
    /\ InitCommon
    /\ nonce = 2
    /\ blogArticles = Stored(<<SampleArticle>>)
    /\ blogUsers \in UserStores
    /\ blogUser \in SessionStores
    /\ blogComments = Absent
    /\ users \in {[tab \in Tabs |-> IF tab = "A" THEN mem ELSE <<>>] :
                     mem \in BootMemories}
    /\ currentUser = Unopened(Null)
    /\ articles = [tab \in Tabs |-> IF tab = "A" THEN <<SampleArticle>> ELSE <<>>]
    /\ comments = Unopened(<<>>)

NextStore ==
    \/ \E fault \in GetFaults : callSafeGetLocalStorage("A", "blogUsers", <<>>, fault)
    \/ \E defaultValue \in {Null, Num(0)}, fault \in GetFaults :
          callSafeGetLocalStorage("A", "blogUser", defaultValue, fault)
    \/ \E value \in WrittenUsers, fault \in SetFaults :
          callSafeSetLocalStorage("A", "blogUsers", value, fault)
    \/ \E value \in WrittenSessions, fault \in SetFaults :
          callSafeSetLocalStorage("A", "blogUser", value, fault)

SpecStore == InitStore /\ [][NextStore]_vars

\* The key as the step found it and as it left it.
KeyBefore == IF last'.key = "blogUsers" THEN blogUsers ELSE blogUser
KeyAfter == IF last'.key = "blogUsers" THEN blogUsers' ELSE blogUser'

\* A read gave the default.
GaveDefault == last'.ret = last'.default

\* A read of a key that holds a text that parses gave the parsed value; a
\* collection of users is never the parsed null or number.
GaveParsed ==
    IF KeyBefore.k = "value" THEN FALSE ELSE last'.ret = KeyBefore.v

\* get as the contract has it.
GetContract ==
    IF last'.fault \in {"unavailable", "throws"} THEN GaveDefault
    ELSE IF KeyBefore.k \in {"absent", "text"} THEN GaveDefault
    ELSE GaveParsed

\* set as the contract has it.
SetContract ==
    /\ last'.ok = (last'.fault = "none")
    /\ ~last'.ok => KeyAfter = KeyBefore
    /\ last'.ok /\ last'.key = "blogUsers" => KeyAfter = Stored(JsonArray(last'.value))

\* C18 as stated: get gives the default when the key is missing, the text
\* does not parse or the storage is unavailable, and the parsed value
\* otherwise, under every key; set gives true after a write and false after
\* a failure, which leaves the key as it was.
C18_AsStated ==
    [][/\ last'.op = "get" => GetContract
       /\ last'.op = "set" => SetContract]_vars

\* C18 amended: the same, with the contract of get held to the keys other
\* than the users key.
C18_StoreAdapter ==
    [][/\ last'.op = "get" /\ last'.key # "blogUsers" => GetContract
       /\ last'.op = "set" => SetContract]_vars

\* A read of the session key found a text that does not parse and gave the
\* default 0.
C18_Witness ==
    /\ last.op = "get" /\ last.key = "blogUser" /\ last.fault = "none"
    /\ blogUser = Unparsable
    /\ last.ret = Num(0)

\* The users key was read while the storage worked.
UsersRead == last'.op = "get" /\ last'.key = "blogUsers" /\ last'.fault = "none"

\* The stored collection, empty when the key holds none.
StoredCollection == IF blogUsers.k = "json" THEN blogUsers.v ELSE <<>>

Named(us, name) == \E i \in DOMAIN us : Get(us[i], "username") = Str(name)

\* The entry has a username and a password.
Complete(u) ==
    /\ Get(u, "username") \notin {Undef, Null, Str(<<>>)}
    /\ Get(u, "password") \notin {Undef, Null, Str(<<>>)}

\* Stored is missing or an empty collection while memory is not empty.
LostAll ==
    /\ blogUsers.k = "absent" \/ (blogUsers.k = "json" /\ blogUsers.v = <<>>)
    /\ users[last'.tab] # <<>>

\* The stored collection lacks 'zcr' while memory has it.
LostAdmin ==
    /\ blogUsers.k = "json"
    /\ ~Named(blogUsers.v, zcr)
    /\ Named(users[last'.tab], zcr)

\* Some stored entry lacks its username or its password.
Malformed == \E i \in DOMAIN StoredCollection : ~Complete(StoredCollection[i])

\* Memory was written back and returned.
WroteMemoryBack ==
    /\ blogUsers' = Stored(JsonArray(users[last'.tab]))
    /\ last'.ret = users[last'.tab]

\* The complete entries were written back and returned.
WroteCleaned ==
    /\ blogUsers' = Stored(SelectSeq(StoredCollection, Complete))
    /\ last'.ret = SelectSeq(StoredCollection, Complete)

C19_WitnessCleaned ==
    /\ last.op = "get" /\ last.key = "blogUsers" /\ last.fault = "none"
    /\ last.wrote
    /\ users["A"] = <<>>
    /\ last.ret = <<adminAccount(StartTime), BobAccount>>
    /\ blogUsers = Stored(<<adminAccount(StartTime), BobAccount>>)

(***************************************************************************)
(* A wrong password.                                                       *)
(***************************************************************************)
\* The failures counted on the record.
AttemptsOf(user) == NumberOrZero(Get(user, "loginAttempts"))

\* What the claim says of a wrong password for the stored record `before`,
\* of which `after` is the record the tab holds afterwards.
WrongPasswordRule(tab, before, after) ==
    /\ last'.res = "WrongPassword"
    /\ Get(after.o, "loginAttempts") = Num(AttemptsOf(before.o) + 1)
    /\ Get(after.o, "lockedUntil") =
          IF AttemptsOf(before.o) + 1 >= MaxLoginAttempts
          THEN Iso(now + LockoutDuration)
          ELSE Get(before.o, "lockedUntil")
    /\ blogUsers' = Stored(JsonArray(users'[tab]))
    /\ blogUser' = blogUser
    /\ currentUser' = currentUser

\* C20: a login that passes the input validation, names a stored user who is
\* not locked and gives a wrong password adds exactly 1 to that user's
\* loginAttempts, sets lockedUntil to now + 30 minutes when the new count is
\* 5 or more and leaves lockedUntil alone when it is less, stores the users,
\* and changes the session neither in memory nor in storage.
C20_WrongPassword ==
    [][\A tab \in Tabs :
          (/\ AttemptStep(tab)
           /\ HasUser(StoredUsers, last'.username)
           /\ ~LockedUntilInFuture(UserOf(StoredUsers, last'.username).o)
           /\ ~PasswordMatches(UserOf(StoredUsers, last'.username).o,
                               last'.password)) =>
              WrongPasswordRule(tab, UserOf(StoredUsers, last'.username),
                                UserOf(users'[tab], last'.username))]_vars

\* The fifth wrong password in a row has just locked bob.
C20_Witness ==
    /\ last.op = "login" /\ last.res = "WrongPassword" /\ last.username = bob
    /\ last.prior = MaxLoginAttempts - 1
    /\ Get(UserOf(StoredUsers, bob).o, "loginAttempts") = Num(MaxLoginAttempts)
    /\ Get(UserOf(StoredUsers, bob).o, "lockedUntil") = Iso(now + LockoutDuration)

\* The fourth wrong password has been counted and has locked nothing.
C20_NotBefore ==
    /\ last.op = "login" /\ last.res = "WrongPassword" /\ last.username = bob
    /\ Get(UserOf(StoredUsers, bob).o, "loginAttempts") = Num(MaxLoginAttempts - 1)
    /\ Get(UserOf(StoredUsers, bob).o, "lockedUntil") = Null

(***************************************************************************)
(* The outcome of checkLoginStatus.                                        *)
(***************************************************************************)
\* The candidate has a sessionExpiry that lies in the past.
ExpiryInPast(candidate) ==
    /\ HasTyped(candidate, "sessionExpiry", "num")
    /\ candidate.o.sessionExpiry.n < now

\* The candidate's username is the username of one of the tab's users.
KnownUser(tab, candidate) ==
    \E i \in DOMAIN users[tab] : Get(users[tab][i], "username") = candidate.o.username

\* The stored session that checkLoginStatus found is to be kept.
SessionStands(tab, candidate, valid) ==
    valid /\ ~ExpiryInPast(candidate) /\ KnownUser(tab, candidate)

C21_WitnessGone ==
    /\ last.op = "checkLogin" /\ last.valid
    /\ ~KnownUser("A", last.candidate)
    /\ currentUser["A"] = Null /\ blogUser = Stored(Null)

\* A valid session of bob has been taken up.
C21_WitnessLoggedIn ==
    /\ last.op = "checkLogin" /\ last.valid
    /\ currentUser["A"] # Null
    /\ currentUser["A"].o.username = Str(bob)

(***************************************************************************)
(* Registrations in two tabs.  A tab reloads its users when the page is    *)
(* reloaded; the storage listener reloads for the key blogArticles only,   *)
(* which a registration does not write.                                    *)
(***************************************************************************)
\* 'dan'
dan == <<100, 97, 110>>
\* 'dan@x.io'
DanEmail == <<100, 97, 110, 64, 120, 46, 105, 111>>
\* 'dan789'
DanPassword == <<100, 97, 110, 55, 56, 57>>

\* What is typed into the registration form: eve, dan, dan with the address
\* of eve, a name that is taken, a confirmation that differs, a password
\* without a digit.
TwoTabForms ==
    {<<eve, EveEmail, EvePassword, EvePassword>>,
     <<dan, DanEmail, DanPassword, DanPassword>>,
     <<dan, EveEmail, DanPassword, DanPassword>>,
     <<bob, DanEmail, DanPassword, DanPassword>>,
     <<eve, EveEmail, EvePassword, BobPassword>>,
     <<dan, DanEmail, <<100, 97, 110, 100, 97, 110>>, <<100, 97, 110, 100, 97, 110>>>>}

\* The users both tabs found when they were opened.
OpenedUsers == {<<adminAccount(StartTime)>>, InitialUsers}

InitRegister ==
    /\ InitCommon
    /\ nonce = 4
    /\ blogArticles = Stored(<<SampleArticle>>)
    /\ blogUsers \in {Stored(found) : found \in OpenedUsers}
    /\ blogUser \in {Absent, Stored(Null)}
    /\ blogComments = Absent
    /\ users = [tab \in Tabs |-> StoredUsers]
    /\ currentUser = [tab \in Tabs |-> Null]
    /\ articles = [tab \in Tabs |-> <<SampleArticle>>]
    /\ comments = [tab \in Tabs |-> <<>>]

NextRegister ==
    \/ \E tab \in Tabs, form \in TwoTabForms :
          handleRegisterScreen(tab, form[1], form[2], form[3], form[4])
    \/ \E tab \in Tabs : loadAllDataSafe(tab)

SpecRegister == InitRegister /\ [][NextRegister]_vars

\* No two records of the collection share a username or an email.
NoSharedIdentity(us) ==
    \A i, j \in DOMAIN us :
        i # j => /\ Get(us[i], "username") # Get(us[j], "username")
                 /\ Get(us[i], "email") # Get(us[j], "email")

\* The usernames of the stored users.
StoredNames(st) ==
    {Get(st.v[i], "username") : i \in DOMAIN st.v}

\* A registration has just been refused.
RegistrationRefused == last'.op = "register" /\ last'.res # "ok"

\* C22: no two stored users share a username or an email; the record of a
\* user who has registered stays in the stored collection through every
\* later registration; a registration that is refused changes neither the
\* users nor the session, in memory or in storage.
C22_Registrations ==
    /\ [](NoSharedIdentity(StoredUsers))
    /\ [][/\ StoredNames(blogUsers) \subseteq StoredNames(blogUsers')
          /\ RegistrationRefused =>
                UNCHANGED <<users, blogUsers, currentUser, blogUser>>]_vars

\* The part of C22 about shared usernames and emails.
C22_Unique == NoSharedIdentity(StoredUsers)

\* The part of C22 about refused registrations.
C22_RefusedFrame ==
    [][RegistrationRefused =>
          UNCHANGED <<users, blogUsers, currentUser, blogUser>>]_vars

\* Both tabs have registered a user with success.
C22_BothRegistered ==
    /\ last.op = "register" /\ last.res = "ok"
    /\ currentUser["A"] # Null /\ currentUser["B"] # Null

(***************************************************************************)
(* Two tabs of the admin: views are recorded in both, articles are edited  *)
(* in B, and the storage events of the writes are delivered.               *)
(***************************************************************************)
\* The articles that are read.
SyncIds == {SampleId, SecondId}

InitSync ==
    /\ InitCommon
    /\ nonce = 5
    /\ blogUsers = Stored(InitialUsers)
    /\ blogComments = Absent
    /\ users = Unopened(InitialUsers)
    /\ currentUser = Unopened(AdminSession)
    /\ blogUser = Stored(JsonValue(AdminSession))
    /\ articles = Unopened(InitialArticles)
    /\ blogArticles = Stored(InitialArticles)
    /\ comments = Unopened(<<>>)

\* The views are recorded and the events delivered.
NextViewsSync ==
    \/ \E articleId \in SyncIds : showArticle("A", articleId)
    \/ showArticle("B", SampleId)
    \/ \E tab \in Tabs : setViewLock(tab)
    \/ \E tab \in Tabs : readStoredArticles(tab)
    \/ \E tab \in Tabs : writeStoredArticles(tab)
    \/ \E tab \in Tabs : syncAllViewDisplays(tab)
    \/ \E tab \in Tabs : storageEvent(tab)

NextSync ==
    \/ NextViewsSync
    \/ showEditorModal("B", Str(SampleId))
    \/ saveArticle("B", TypedTitle, Tech, TypedContent)

\* Every storage event is delivered, and every call that is under way goes on.
FairDelivery ==
    /\ \A tab \in Tabs : WF_vars(storageEvent(tab))
    /\ \A tab \in Tabs : WF_vars(setViewLock(tab) \/ readStoredArticles(tab)
                                    \/ writeStoredArticles(tab)
                                    \/ syncAllViewDisplays(tab))

SpecSync == InitSync /\ [][NextSync]_vars /\ FairDelivery

\* The views are counted up to this in the claims about delivery.
MaxSyncViews == 5

\* The views this.articles of the tab has for the article.
ViewsInMemory(tab, articleId) ==
    Get(ArticleOf(articles[tab], Str(articleId)), "views").n

\* Tab A has just recorded that the article has been viewed v times.
RecordedByA(articleId, v) ==
    /\ last.op = "view" /\ last.tab = "A" /\ last.res = "Increased"
    /\ last.article = articleId
    /\ ViewsIn(blogArticles, articleId) = Num(v)

\* C23: when a tab has handled a storage event its articles are the stored
\* articles; and, the events being delivered, a view count that tab A has
\* recorded is in the articles of tab B sooner or later.
C23_Delivery ==
    /\ [][last'.op = "storage" =>
             articles'[last'.tab] = safeGetLocalStorage(blogArticles', <<>>)]_vars
    /\ \A articleId \in SyncIds : \A v \in 1..MaxSyncViews :
          RecordedByA(articleId, v) ~> (ViewsInMemory("B", articleId) >= v)

\* The part of C23 about the handling of one event.
C23_Handled ==
    [][last'.op = "storage" =>
          articles'[last'.tab] = safeGetLocalStorage(blogArticles', <<>>)]_vars

\* Tab B has handled the event of a view that tab A recorded.
C23_Witness ==
    /\ last.op = "storage" /\ last.tab = "B"
    /\ SampleId \in viewed["A"]
    /\ ViewsInMemory("B", SampleId) = 1

(***************************************************************************)
(* The periodic check of the view counters, in a tab whose articles may    *)
(* have been stored without a counter.                                     *)
(***************************************************************************)
\* The article with its views removed, null, or set to a number.
CountedAs(article, views) ==
    IF views = Undef
    THEN [f \in DOMAIN article \ {"views"} |-> article[f]]
    ELSE Put(article, "views", views)

StatsViews == {Undef, Null, Num(0), Num(3)}

StatsArticles ==
    {<<CountedAs(SampleArticle, v), CountedAs(SecondArticle, w)>> :
        v \in StatsViews, w \in StatsViews}

InitStats ==
    /\ InitCommon
    /\ nonce = 5
    /\ blogUsers = Stored(InitialUsers)
    /\ blogComments = Absent
    /\ users = [tab \in Tabs |-> IF tab = "A" THEN InitialUsers ELSE <<>>]
    /\ currentUser = Unopened(Null)
    /\ blogUser \in {Absent, Stored(Null)}
    /\ \E found \in StatsArticles :
          /\ articles = [tab \in Tabs |-> IF tab = "A" THEN found ELSE <<>>]
          /\ blogArticles = Stored(found)
    /\ comments = Unopened(<<>>)

NextStats ==
    \/ validateViewStats("A")
    \/ \E articleId \in SyncIds : showArticle("A", articleId)
    \/ setViewLock("A")
    \/ readStoredArticles("A")
    \/ writeStoredArticles("A")
    \/ syncAllViewDisplays("A")
    \/ loadAllDataSafe("A")

SpecStats == InitStats /\ [][NextStats]_vars

\* The article has no views, or null for views.
ViewsMissing(article) ==
    "views" \notin DOMAIN article \/ article.views \in {Undef, Null}

\* The article as the check may leave it.
Audited(before, after) ==
    /\ DOMAIN after = DOMAIN before \cup {"views"}
    /\ \A f \in DOMAIN before \ {"views"} : after[f] = before[f]
    /\ after.views = IF ViewsMissing(before) THEN Num(0) ELSE before.views

\* C24: validateViewStats writes nothing to storage, keeps the articles of
\* the tab and their order, leaves every article that has views as it is,
\* and gives views 0 to an article that has none.
C24_AuditFrame ==
    [][last'.op = "viewStats" =>
          /\ UNCHANGED storeVars
          /\ UNCHANGED <<users, currentUser, comments>>
          /\ DOMAIN articles'[last'.tab] = DOMAIN articles[last'.tab]
          /\ \A i \in DOMAIN articles[last'.tab] :
                Audited(articles[last'.tab][i], articles'[last'.tab][i])]_vars

\* The check has given views 0 to the sample article, which is stored
\* without views, and has left the 3 views of the second article.
C24_Witness ==
    /\ last.op = "viewStats"
    /\ articles["A"][1].views = Num(0)
    /\ "views" \notin DOMAIN safeGetLocalStorage(blogArticles, <<>>)[1]
    /\ articles["A"][2].views = Num(3)

(***************************************************************************)
(* initializeApp, stage by stage: each stage is awaited, so a stage starts *)
(* when the stage before it has completed.  A stage that throws takes the  *)
(* catch of initializeApp, which calls handleInitError.                    *)
(***************************************************************************)
\* The stage that has just completed in the tab.
After(tab, op) ==
    IF last.op # op THEN FALSE
    ELSE IF op = "init" THEN TRUE ELSE last.tab = tab

\* handleInitError
handleInitError(tab, stage) ==
    /\ currentUser' = [currentUser EXCEPT ![tab] = Null]
    /\ blogUser' = safeSetLocalStorage(Null)
    /\ last' = [op |-> "initError", tab |-> tab, stage |-> stage,
                isInitialized |-> FALSE]
    /\ UNCHANGED <<now, nonce, blogUsers, blogArticles, blogComments, viewLock,
                   users, articles, comments, editingArticleId, viewVars>>

\* A stage that touches the page only has completed.
StageDone(tab, stage) ==
    /\ last' = [op |-> stage, tab |-> tab]
    /\ UNCHANGED <<now, nonce, storeVars, memVars, viewVars>>

\* checkCriticalElements, and the throw when elements are missing.
checkCriticalElements(tab, present) ==
    IF present THEN StageDone(tab, "elements") ELSE handleInitError(tab, "elements")

\* The integrity check when articles.length or comments.length throws: the
\* catch of validateDataIntegrity logs the error, no backup is made.
IntegrityCaught(got, mem, t) ==
    IF ~HasUser(got.ret, zcr)
    THEN initializeAdminAccount(got.st, mem, t)
    ELSE [mem |-> mem, st |-> got.st]

IntegrityReturns(tab, r, failed) ==
    /\ users' = [users EXCEPT ![tab] = r.mem]
    /\ blogUsers' = r.st
    /\ last' = [op |-> "integrity", tab |-> tab, failed |-> failed]
    /\ UNCHANGED <<now, nonce, blogUser, blogArticles, blogComments, viewLock,
                   currentUser, articles, comments, editingArticleId, viewVars>>

\* await this.validateDataIntegrity()
callValidateDataIntegrity(tab) ==
    IF LoadSucceeds
    THEN IntegrityReturns(tab, validateDataIntegrity(blogUsers, users[tab], now),
                          FALSE)
    ELSE IntegrityReturns(tab,
                          IntegrityCaught(safeGetLocalStorageUsers(blogUsers, users[tab]),
                                          users[tab], now),
                          TRUE)

\* bindEventsSafely, which throws again what a binding throws.
bindEventsSafely(tab, bound) ==
    IF bound THEN StageDone(tab, "bind") ELSE handleInitError(tab, "bind")

\* updateUI: this.articles.length throws when this.articles, as loaded from
\* the key, is null.
updateUI(tab) ==
    IF blogArticles.k = "value"
    THEN handleInitError(tab, "render")
    ELSE StageDone(tab, "render")

\* The login-state stage of a first load: showLoginScreen().
showLoginFirst(tab) == StageDone(tab, "firstLoad")

\* initViewSyncEvents() and this.isInitialized = true
initViewSyncEvents(tab) ==
    /\ last' = [op |-> "initialized", tab |-> tab, isInitialized |-> TRUE]
    /\ UNCHANGED <<now, nonce, storeVars, memVars, viewVars>>

\* A session of bob that validateUserObject accepts.
BobSession ==
    Obj([id |-> BobAccount.id, username |-> Str(bob), isAdmin |-> Bool(FALSE),
         email |-> BobAccount.email, loginTime |-> Num(StartTime)])

\* What the page finds in storage.
FoundUsers == {Absent, Stored(<<>>), Stored(<<BobAccount>>), Stored(InitialUsers)}
FoundSessions == {Absent, Stored(Null), Stored(JsonValue(AdminSession)), Stored(BobSession)}
FoundArticles == {Absent, Stored(InitialArticles), StoredValue(Null)}
FoundComments == {Absent, Stored(<<>>), StoredValue(Null)}

\* The constructor has run.
InitApp ==
    /\ InitCommon
    /\ nonce = 5
    /\ blogUsers \in FoundUsers
    /\ blogUser \in FoundSessions
    /\ blogArticles \in FoundArticles
    /\ blogComments \in FoundComments
    /\ users = Unopened(<<>>)
    /\ currentUser = Unopened(Null)
    /\ articles = Unopened(<<>>)
    /\ comments = Unopened(<<>>)

initializeApp(tab) ==
    \/ After(tab, "init") /\ \E present \in BOOLEAN : checkCriticalElements(tab, present)
    \/ After(tab, "elements") /\ callInitializeAdminAccount(tab)
    \/ After(tab, "initAdmin") /\ loadAllDataSafe(tab)
    \/ After(tab, "load") /\ callValidateDataIntegrity(tab)
    \/ After(tab, "integrity") /\ \E bound \in BOOLEAN : bindEventsSafely(tab, bound)
    \/ After(tab, "bind") /\ updateUI(tab)
    \/ After(tab, "render") /\ showLoginFirst(tab)
    \/ After(tab, "render") /\ checkLoginStatus(tab)
    \/ (After(tab, "firstLoad") \/ After(tab, "checkLogin")) /\ initializeSampleData(tab)
    \/ After(tab, "sampleData") /\ initViewSyncEvents(tab)

NextApp == initializeApp("A")

SpecApp == InitApp /\ [][NextApp]_vars

\* The stages in their order; the login-state stage is "firstLoad" at a
\* first load.
StageOrder ==
    <<"init", "elements", "initAdmin", "load", "integrity", "bind", "render",
      "checkLogin", "sampleData", "initialized">>

StageIndex(op) ==
    IF op = "firstLoad" THEN 8
    ELSE CHOOSE i \in DOMAIN StageOrder : StageOrder[i] = op

\* The stage that has just completed has failed.
StageFailed ==
    \/ last.op = "load" /\ ~last.success
    \/ last.op = "integrity" /\ last.failed

\* C25: the stages run in the fixed order, each after the one before it has
\* completed; after a stage that has failed no other stage runs; and when
\* the initialization has failed the application is not initialized and the
\* session is null in memory and in storage.
C25_Pipeline ==
    /\ [][last'.op # "initError" => StageIndex(last'.op) = StageIndex(last.op) + 1]_vars
    /\ [][StageFailed => last'.op = "initError"]_vars
    /\ [](last.op = "initError" =>
             /\ ~last.isInitialized
             /\ currentUser["A"] = Null /\ blogUser = Stored(Null))

\* The part of C25 about the order of the stages.
C25_Ordered ==
    [][last'.op # "initError" => StageIndex(last'.op) = StageIndex(last.op) + 1]_vars

\* The part of C25 about the state a failure that is thrown leaves.
C25_SafeState ==
    last.op = "initError" =>
        /\ ~last.isInitialized
        /\ currentUser["A"] = Null /\ blogUser = Stored(Null)

\* The application is initialized although the data load and the integrity
\* check have failed.
C25_InitializedAfterFailure ==
    /\ last.op = "initialized" /\ last.isInitialized
    /\ blogComments.k = "value"

(***************************************************************************)
(* The login screen and its timers.                                        *)
(*                                                                         *)
(* showLoginScreen and hideLoginScreen are called by the handlers that log *)
(* in, log out, register and check the session; here they are called in    *)
(* any order and at any instant, with the clock advancing by tenths of a   *)
(* second.  A timer is [run, set, due]: what its callback does, the        *)
(* instant setTimeout was called and the instant it is due.  The handle    *)
(* that setTimeout returns is modelled by set, which no two pending timers *)
(* with different callbacks-to-be share: of two timers that run the same   *)
(* callback and were set at the same instant one is kept, their callbacks  *)
(* assign the same values.  A timer fires at or after it is due.           *)
(***************************************************************************)
\* const minDisplayTime = 500
MinDisplayTime == 500
\* The delay of the timers that end the transitions, in milliseconds.
FadeTime == 300
\* The clock advances by this many milliseconds, up to MaxMillis.
TickMillis == 100
MaxMillis == 600

\* Date.now() in milliseconds, counted from a thousand seconds before
\* StartTime: the handlers take differences of instants, and an instant is
\* never 0.
DateNow == (now - StartTime + 1000) * 1000 + millis

Timer(run, t, delay) == [run |-> run, set |-> t, due |-> t + delay]

\* A slip in showLoginScreen: the timer is forgotten, not cleared.
forgetTimeout(pending, handle) == pending

\* clearTimeout(this.hideLoginTimer)
clearTimeout(pending, handle) ==
    {timer \in pending : ~(timer.run = "hide" /\ timer.set = handle)}

HidePending(screen) ==
    \E timer \in screen.pending :
        timer.run = "hide" /\ timer.set = screen.hideLoginTimer

showLoginScreen(tab) ==
    LET screen == loginScreen[tab]
        cleared == IF screen.hideLoginTimer # 0
                   THEN clearTimeout(screen.pending, screen.hideLoginTimer)
                   ELSE screen.pending
    IN  /\ loginScreen' = [loginScreen EXCEPT ![tab] =
               [loginScreenShowTime |-> DateNow,
                hideLoginTimer |-> 0,
                display |-> "flex",
                opacity |-> "1",
                mainContent |-> screen.mainContent,
                pending |-> cleared \cup {Timer("main", DateNow, FadeTime)}]]
        /\ last' = [op |-> "showLoginScreen", tab |-> tab,
                    cancelled |-> HidePending(screen)]
        /\ UNCHANGED <<now, nonce, storeVars, memVars, viewed, call, timers, inbox,
                       millis>>

\* loginScreen.style.opacity = '0' and the timer that sets its display to
\* none; mainContent.style.display = 'block'.
performHideLoginScreen(screen, t) ==
    [screen EXCEPT !.opacity = "0", !.mainContent = "block",
                   !.pending = @ \cup {Timer("fade", t, FadeTime)}]

hideLoginScreen(tab) ==
    LET screen == loginScreen[tab]
        elapsedTime == DateNow - screen.loginScreenShowTime
        cleared == IF screen.hideLoginTimer # 0
                   THEN clearTimeout(screen.pending, screen.hideLoginTimer)
                   ELSE screen.pending
    IN  /\ loginScreen' = [loginScreen EXCEPT ![tab] =
               IF elapsedTime < MinDisplayTime
               THEN [screen EXCEPT
                        !.hideLoginTimer = DateNow,
                        !.pending = cleared \cup
                            {Timer("hide", DateNow, MinDisplayTime - elapsedTime)}]
               ELSE performHideLoginScreen(screen, DateNow)]
        /\ last' = [op |-> "hideLoginScreen", tab |-> tab,
                    deferred |-> elapsedTime < MinDisplayTime]
        /\ UNCHANGED <<now, nonce, storeVars, memVars, viewed, call, timers, inbox,
                       millis>>

\* What the callback of a timer does to the screen.
RunTimer(screen, timer, t) ==
    IF timer.run = "hide" THEN performHideLoginScreen(screen, t)
    ELSE IF timer.run = "fade" THEN [screen EXCEPT !.display = "none"]
    ELSE [screen EXCEPT !.mainContent = "none"]

screenTimer(tab) ==
    \E timer \in loginScreen[tab].pending :
        /\ DateNow >= timer.due
        /\ loginScreen' = [loginScreen EXCEPT ![tab] =
               RunTimer([loginScreen[tab] EXCEPT !.pending = @ \ {timer}],
                        timer, DateNow)]
        /\ last' = [op |-> "timer", tab |-> tab, run |-> timer.run,
                    handle |-> timer.set]
        /\ UNCHANGED <<now, nonce, storeVars, memVars, viewed, call, timers, inbox,
                       millis>>

TickScreen ==
    /\ millis + TickMillis <= MaxMillis
    /\ millis' = millis + TickMillis
    /\ last' = [op |-> "tick"]
    /\ UNCHANGED <<now, nonce, storeVars, memVars, viewed, call, timers, inbox,
                   loginScreen>>

NextScreen ==
    \/ showLoginScreen("A")
    \/ hideLoginScreen("A")
    \/ screenTimer("A")
    \/ TickScreen

SpecScreen == InitOneTab /\ [][NextScreen]_vars

\* The login screen of the tab is displayed and opaque.
Shown(tab) ==
    loginScreen[tab].display = "flex" /\ loginScreen[tab].opacity = "1"

\* The last call of the two was showLoginScreen: hideLoginScreen leaves a
\* handle in hideLoginTimer or makes the screen transparent.
ShowStands(tab) ==
    /\ loginScreen[tab].loginScreenShowTime # 0
    /\ loginScreen[tab].hideLoginTimer = 0
    /\ loginScreen[tab].opacity = "1"

\* Every pending hide timer is the one hideLoginTimer holds.
OneHideTimer ==
    \A tab \in Tabs : \A timer \in loginScreen[tab].pending :
        timer.run = "hide" => timer.set = loginScreen[tab].hideLoginTimer

\* showLoginScreen has just cleared a pending hide timer.
Cancelled(tab) ==
    last.op = "showLoginScreen" /\ last.tab = tab /\ last.cancelled

C26_StillShown ==
    /\ ShowStands("A") /\ Shown("A")
    /\ DateNow >= loginScreen["A"].loginScreenShowTime + MinDisplayTime

\* A deferred hide is pending.
C26_Deferred == HidePending(loginScreen["A"])

(***************************************************************************)
(* Two readers of the sample article, one of whom may delete it: the call  *)
(* of a tab can be suppressed by the lock of the other tab, and can find   *)
(* the article gone from the stored collection while the tab still lists   *)
(* it.                                                                     *)
(***************************************************************************)
NextMarked ==
    \/ \E tab \in Tabs : showArticle(tab, SampleId)
    \/ \E tab \in Tabs : setViewLock(tab)
    \/ \E tab \in Tabs : readStoredArticles(tab)
    \/ \E tab \in Tabs : writeStoredArticles(tab)
    \/ \E tab \in Tabs : syncAllViewDisplays(tab)
    \/ releaseViewLock
    \/ deleteArticle("B", SampleId, TRUE)
    \/ \E tab \in Tabs : storageEvent(tab)
    \/ TickViews

SpecMarked == InitTwoTabs /\ [][NextMarked]_vars

\* The call of the tab for the article is in flight.
InFlight(tab, articleId) ==
    IF "article" \in DOMAIN call[tab] THEN call[tab].article = articleId ELSE FALSE

\* The tab has called for the article and the call has returned not
\* increased.
MarkedNotCounted(tab, articleId) ==
    /\ articleId \in viewed[tab]
    /\ articleId \notin call[tab].increased
    /\ ~InFlight(tab, articleId)

\* C27: incrementViewsSafely sets the session marker before the lock is
\* tried: a call that the lock suppresses, or that does not find the article
\* in the stored collection, leaves the article marked as viewed in the tab;
\* every later call for it in the tab returns not increased at once and
\* writes nothing, and the tab never reports an increase for the article.
C27_MarkedBeforeLock ==
    /\ [](last.op = "view" /\ last.res \in {"RateLimited", "Missing"}
            => MarkedNotCounted(last.tab, last.article))
    /\ [][\A tab \in Tabs :
            MarkedNotCounted(tab, SampleId) =>
                /\ MarkedNotCounted(tab, SampleId)'
                /\ CallStarts(tab, SampleId) =>
                      /\ last'.op = "view"
                      /\ last'.res \in {"AlreadyViewed", "NotFound"}
                      /\ blogArticles' = blogArticles]_vars

\* A tab whose first call for the sample article was suppressed by the lock
\* of the other tab has called again: already viewed, though the tab has
\* counted nothing and the lock is gone.
C27_Witness ==
    /\ last.op = "view" /\ last.res = "AlreadyViewed"
    /\ MarkedNotCounted(last.tab, SampleId)
    /\ LockOf(SampleId) = Absent
    /\ HasArticle(safeGetLocalStorage(blogArticles, <<>>), SampleId)

\* The same after a call that did not find the article in the stored
\* collection.
C27_WitnessMissing ==
    /\ last.op = "view" /\ last.res = "AlreadyViewed"
    /\ MarkedNotCounted(last.tab, SampleId)
    /\ ~HasArticle(safeGetLocalStorage(blogArticles, <<>>), SampleId)

\* The call was suppressed by the lock.
C27_Suppressed == last.op = "view" /\ last.res = "RateLimited"

\* The call did not find the article in the stored collection.
C27_Missing == last.op = "view" /\ last.res = "Missing"

(***************************************************************************)
(* The failure counter across a lockout.                                   *)
(***************************************************************************)
\* The record holds a lockedUntil that has elapsed.
LockoutElapsed(user) ==
    /\ "lockedUntil" \in DOMAIN user
    /\ "iso" \in DOMAIN user.lockedUntil
    /\ user.lockedUntil.iso <= now

\* What the claim says of a step for the stored record `before`, of which
\* `after` is the stored record afterwards.
CounterRule(tab, username, before, after) ==
    /\ (/\ AttemptStep(tab) /\ last'.username = username
        /\ AttemptsOf(before.o) >= MaxLoginAttempts
        /\ LockoutElapsed(before.o)
        /\ ~PasswordMatches(before.o, last'.password)) =>
          /\ last'.res = "WrongPassword"
          /\ Get(after.o, "loginAttempts") = Num(AttemptsOf(before.o) + 1)
          /\ Get(after.o, "lockedUntil") = Iso(now + LockoutDuration)
    /\ AttemptsOf(after.o) < AttemptsOf(before.o) =>
          /\ last'.op = "login" /\ last'.res = "ok" /\ last'.username = username
          /\ PasswordMatches(before.o, last'.password)
          /\ AttemptsOf(after.o) = 0

\* C28: the end of a lockout does not reset loginAttempts.  A wrong password
\* for a user with 5 or more failures whose lockedUntil has elapsed counts
\* one more failure and sets lockedUntil to now + 30 minutes at once; the
\* counter of a stored user goes down only by a login with the correct
\* password, which sets it to 0.
C28_CounterSurvivesLockout ==
    [][\A tab \in Tabs : \A username \in {zcr, bob} :
          (HasUser(StoredUsers, username)
             /\ HasUser(safeGetLocalStorage(blogUsers', <<>>), username)) =>
              CounterRule(tab, username, UserOf(StoredUsers, username),
                          UserOf(safeGetLocalStorage(blogUsers', <<>>),
                                 username))]_vars

\* bob, locked out by five wrong passwords, has given one wrong password
\* after the lockout had elapsed and is locked out again.
C28_Witness ==
    /\ last.op = "login" /\ last.res = "WrongPassword" /\ last.username = bob
    /\ last.prior = MaxLoginAttempts
    /\ now >= StartTime + LockoutDuration
    /\ Get(UserOf(StoredUsers, bob).o, "loginAttempts") = Num(MaxLoginAttempts + 1)
    /\ Get(UserOf(StoredUsers, bob).o, "lockedUntil") = Iso(now + LockoutDuration)

\* The lockout of bob has elapsed and the five failures are still counted.
C28_Elapsed ==
    /\ last.op = "tick"
    /\ HasUser(StoredUsers, bob)
    /\ LockoutElapsed(UserOf(StoredUsers, bob).o)
    /\ AttemptsOf(UserOf(StoredUsers, bob).o) = MaxLoginAttempts

(***************************************************************************)
(* A user whom the admin has locked logs in.                               *)
(***************************************************************************)
\* bob logs in, or mistypes.
FlaggedForms == {<<bob, BobPassword>>, <<bob, WrongPassword>>}

NextFlagged ==
    \/ \E form \in FlaggedForms : handleLoginScreen("A", form[1], form[2])
    \/ handleLogout("A")
    \/ \E username \in RowNames : lockUser("A", username)
    \/ \E selected \in SUBSET {bob}, confirmed \in BOOLEAN :
          batchLockUsers("A", selected, confirmed)
    \/ \E selected \in SUBSET {bob}, confirmed \in BOOLEAN :
          batchUnlockUsers("A", selected, confirmed)
    \/ TickLogin

SpecFlagged == InitAccounts /\ [][NextFlagged]_vars

\* The record as it would be had the admin not locked the user.
Unflagged(user) == Put(user, "isLocked", Bool(FALSE))

Flagged(user) == Get(user, "isLocked") = Bool(TRUE)

\* What the claim says the handler decides for the stored record.
DecisionFor(user, password) ==
    IF LockedUntilInFuture(user) THEN "AccountLocked"
    ELSE IF PasswordMatches(user, password) THEN "ok"
    ELSE "WrongPassword"

\* What the claim says of an attempt on the stored record `before`: the
\* decision and the session are those for the record without the flag.
FlagIgnored(tab, before) ==
    /\ last'.res = DecisionFor(Unflagged(before), last'.password)
    /\ last'.res = "ok" =>
          /\ currentUser'[tab] =
                 LoginSession(LoggedInUser(Unflagged(before), now), now)
          /\ blogUser' = Stored(JsonValue(currentUser'[tab]))

\* C29: the login decision does not depend on isLocked.  An attempt for a
\* stored user is decided as it would be for the same record with isLocked
\* false, so a user whom lockUser or batchLockUsers has locked, with no
\* lockedUntil in the future, who gives the correct password is logged in
\* with the session an unlocked user gets.
C29_FlagIgnored ==
    [][\A tab \in Tabs :
          (AttemptStep(tab) /\ HasUser(StoredUsers, last'.username)) =>
              FlagIgnored(tab, UserOf(StoredUsers, last'.username).o)]_vars

\* bob, locked by the admin, has just logged in with the correct password.
C29_Witness ==
    /\ last.op = "login" /\ last.res = "ok" /\ last.username = bob
    /\ Flagged(UserOf(StoredUsers, bob).o)
    /\ currentUser["A"] # Null
    /\ Get(currentUser["A"].o, "username") = Str(bob)
    /\ blogUser = Stored(JsonValue(currentUser["A"]))

\* bob has been locked by the admin.
C29_Locked ==
    /\ last.op \in {"lockUser", "batchLockUsers"}
    /\ HasUser(StoredUsers, bob)
    /\ Flagged(UserOf(StoredUsers, bob).o)

(***************************************************************************)
(* The release of the lock.  Two tabs read the sample article; a tab may   *)
(* be closed and a new one opened in its place, which starts a new session *)
(* of the reader: the browser discards the session storage and the timers  *)
(* of the closed tab, and the new page loads what is stored.               *)
(***************************************************************************)
newTabSession(tab) ==
    /\ Idle(tab)
    /\ viewed' = [viewed EXCEPT ![tab] = {}]
    /\ call' = [call EXCEPT ![tab] = NoCall]
    /\ timers' = {timer \in timers : timer.tab # tab}
    /\ inbox' = inbox \ {tab}
    /\ articles' = [articles EXCEPT ![tab] = LoadedArticles(blogArticles)]
    /\ LoadUsers(tab, safeGetLocalStorageUsers(blogUsers, <<>>))
    /\ comments' = [comments EXCEPT ![tab] = safeGetLocalStorage(blogComments, <<>>)]
    /\ currentUser' = [currentUser EXCEPT ![tab] = safeGetLocalStorage(blogUser, Null)]
    /\ last' = [op |-> "newSession", tab |-> tab]
    /\ UNCHANGED <<now, nonce, blogUser, blogArticles, blogComments, viewLock,
                   editingArticleId, screenVars>>

NextRelease ==
    \/ \E tab \in Tabs : showArticle(tab, SampleId)
    \/ \E tab \in Tabs : setViewLock(tab)
    \/ \E tab \in Tabs : readStoredArticles(tab)
    \/ \E tab \in Tabs : writeStoredArticles(tab)
    \/ \E tab \in Tabs : syncAllViewDisplays(tab)
    \/ releaseViewLock
    \/ \E tab \in Tabs : newTabSession(tab)
    \/ TickViews

SpecRelease == InitTwoTabs /\ [][NextRelease]_vars

\* A release timer has just removed a lock that was written after the timer
\* had been set, less than a second ago.
ReleasedYoungLock ==
    /\ last.op = "release"
    /\ last.removed.k # "absent"
    /\ last.removed.v > last.due - LockReleaseDelay
    /\ now - last.removed.v < ViewLockWindow

\* C30: the release timer removes the lock record of the article whatever it
\* holds, also a lock written after the timer was set and less than a second
\* old; and a call that finds no lock record is not suppressed, however
\* recently another call acquired the lock.
C30_UnconditionalRelease ==
    /\ [][last'.op = "release" => LockOf(SampleId)' = Absent]_vars
    /\ [][\A tab \in Tabs :
            (/\ CallStarts(tab, SampleId)
             /\ HasArticle(articles[tab], SampleId)
             /\ SampleId \notin viewed[tab]) =>
                (last' = ViewResult(tab, SampleId, "RateLimited"))
                    = LockHeld(LockOf(SampleId), now)]_vars

\* The release timer of an earlier call has just removed the lock that the
\* other tab wrote this very second.
C30_Witness ==
    /\ ReleasedYoungLock
    /\ last.removed = Stored(now)
    /\ \E tab \in Tabs \ {last.tab} : ~Idle(tab) \/ SampleId \in viewed[tab]

\* A call goes on to take the lock although the other tab has written its
\* lock and has not yet set its release timer: the lock record is gone.
C30_NotSuppressed ==
    \E tab \in Tabs :
        /\ last = ViewStep(tab, SampleId, "showArticle")
        /\ LockOf(SampleId) = Absent
        /\ \E other \in Tabs \ {tab} : call[other].pc \in {"read", "write"}

====
